-------------------------- MODULE Sessions_proofs --------------------------
(***************************************************************************)
(* Proofs about Sessions, for any accounts, workers and bounds: a refresh  *)
(* token has one heir, a new password ends every session that began before *)
(* it, and a one-time code or a password link is used once.                *)
(***************************************************************************)
EXTENDS Sessions, TLAPS, FiniteSetTheorems

Pcs      == {"idle", "login", "register", "setup", "disable", "rotated", "logout", "reset", "revoking"}
Row      == [live : BOOLEAN, active : BOOLEAN, member : BOOLEAN, secret : Nat, last : Nat]
TokenRow == [a : Accounts, st : {"live", "revoked", "gone"}, parent : Nat, epoch : Nat, late : BOOLEAN]
LinkRow  == [a : Accounts, st : {"open", "used", "gone"}]
Job      == [pc : Pcs, a : Accounts \cup {NoAccount}, t : Nat, k : Int, code : Nat, from : Row,
             targets : SUBSET Nat, epoch : Nat, late : BOOLEAN]
Seen     == [epoch : [Accounts -> Nat], codes : [Accounts -> SUBSET Nat], twice : SUBSET Accounts,
             torn : SUBSET Accounts, uses : [1..MaxLinks -> Nat], shared : SUBSET Nat]

SessionsType ==
    /\ account \in [Accounts -> Row]
    /\ token \in Seq(TokenRow) /\ link \in Seq(LinkRow) /\ Len(link) <= MaxLinks
    /\ step \in Nat /\ job \in [Workers -> Job]
    /\ spent \in [calls : Nat, desk : Nat] /\ seen \in Seen
    /\ \A w \in Workers : job[w].pc # "idle" => job[w].a \in Accounts

(* A token that is being rotated is good, is the account's, and has one    *)
(* call that rotates it.                                                   *)
Rotations ==
    /\ \A w \in Workers : job[w].pc = "rotated" =>
          /\ job[w].t \in DOMAIN token
          /\ token[job[w].t].st = "live" /\ token[job[w].t].a = job[w].a
    /\ \A v, w \in Workers : job[v].pc = "rotated" /\ job[w].pc = "rotated" /\ job[v].t = job[w].t => v = w

(* An heir comes after its parent, which is no good any more, and is its   *)
(* only one.                                                               *)
Heirs ==
    /\ \A u \in DOMAIN token : token[u].parent <= Len(token)
    /\ \A u \in DOMAIN token : token[u].parent # 0 => token[token[u].parent].st # "live"
    /\ \A t, u \in DOMAIN token : token[t].parent # 0 /\ token[t].parent = token[u].parent => t = u

(* Calls that may make a token, and calls that end sessions.               *)
Makes(w) == job[w].pc \in {"login", "register", "rotated"}
Ends(w)  == job[w].pc = "revoking"

(* Whatever ends the sessions of an account, its targets and the calls it  *)
(* marks are all that has begun before.                                    *)
Epochs ==
    /\ \A t \in DOMAIN token : token[t].epoch <= seen.epoch[token[t].a]
    /\ \A w \in Workers : Makes(w) => job[w].epoch <= seen.epoch[job[w].a]
    /\ \A w \in Workers : Makes(w) /\ job[w].epoch < seen.epoch[job[w].a] => job[w].late

Reached ==
    \A v \in Workers : Ends(v) =>
        /\ \A t \in DOMAIN token : token[t].a = job[v].a /\ token[t].st = "live" /\ ~ token[t].late
              => t \in job[v].targets
        /\ \A w \in Workers : Makes(w) /\ job[w].a = job[v].a => job[w].late

(* The row remembers the newest code of its secret, unless it was torn;    *)
(* a login that will be accepted knew an older one.                        *)
CodesKnown ==
    /\ \A a \in Accounts : account[a].live /\ a \notin seen.torn => \A c \in seen.codes[a] : c <= account[a].last
    /\ \A a \in Customers : seen.codes[a] = {}
    /\ \A w \in Workers : job[w].pc = "login" /\ job[w].code > 0 =>
          job[w].a \in Admins /\ job[w].from.last < job[w].code
    /\ \A w \in Workers : job[w].pc \in {"setup", "disable"} => job[w].a \in Admins
    /\ \A w \in Workers : job[w].pc = "register" => job[w].a \in Customers /\ job[w].code = 0
    /\ seen.twice \subseteq seen.torn

(* A link that is not shared has set no password while it is open or in    *)
(* use, and is in use by one call, the only one of the account with a link.*)
Linked(w) == job[w].k > 0

LinksKnown ==
    /\ \A w \in Workers : Linked(w) => job[w].k \in DOMAIN link /\ job[w].a = link[job[w].k].a /\ job[w].pc # "idle"
    /\ \A k \in 1..MaxLinks : k \notin DOMAIN link => seen.uses[k] = 0
    /\ \A k \in DOMAIN link : k \notin seen.shared =>
          /\ seen.uses[k] <= 1
          /\ link[k].st = "open" => seen.uses[k] = 0
          /\ \A w \in Workers : job[w].k = k =>
                /\ seen.uses[k] = 0
                /\ \A v \in Workers : Linked(v) /\ job[v].a = link[k].a => v = w
    /\ seen.shared \subseteq DOMAIN link

SessionsInv == SessionsType /\ Rotations /\ Heirs /\ Epochs /\ Reached /\ RevocationReaches
               /\ CodesKnown /\ LinksKnown

-----------------------------------------------------------------------------
(* What calls do to the jobs.                                              *)

(* A call that has begun is recorded with what it has read.                *)
Begun(w, j) ==
    /\ job[w].pc = "idle" /\ job' = [job EXCEPT ![w] = j] /\ j \in Job /\ j.a \in Accounts
    /\ j.pc \in Pcs \ {"idle", "revoking"} /\ j.from = account[j.a]
    /\ j.epoch = seen.epoch[j.a] /\ (Ending(j.a) => j.late)
    /\ j.pc = "login" /\ j.code > 0 => j.a \in Admins /\ j.from.last < j.code
    /\ j.pc \in {"setup", "disable"} => j.a \in Admins
    /\ j.pc = "register" => j.a \in Customers /\ j.code = 0
    /\ j.pc = "rotated" => /\ j.t \in DOMAIN token /\ token[j.t].st = "live" /\ token[j.t].a = j.a /\ ~ Held(j.t)
                           /\ token[j.t].late => j.late
    /\ j.k > 0 => /\ j.k \in DOMAIN link /\ link[j.k].st = "open" /\ link[j.k].a = j.a
                  /\ seen' = IF {v \in Workers \ {w} : job[v].a = j.a /\ job[v].k > 0} = {} THEN seen
                             ELSE [seen EXCEPT !.shared = @ \cup {i \in DOMAIN link : link[i].a = j.a}]
    /\ ~ (j.k > 0) => seen' = seen
    /\ spent' \in [calls : Nat, desk : Nat]
    /\ UNCHANGED <<account, token, link, step>>

(* A worker without a call, and the rows of accounts, are of their types.  *)
LEMMA IdleIs ==
    /\ Idle \in Job /\ Idle.pc = "idle" /\ Idle.k = 0 /\ Idle.a = NoAccount /\ NoAccount \notin Accounts
    /\ Stranger \in Row /\ Admin \in Row /\ Admin.live /\ Stranger.live = FALSE
  BY SessionsAssumption DEF Idle, Stranger, Admin, Job, Pcs, Row

(* A call has read the account's row.                                      *)
LEMMA StartIs ==
    ASSUME SessionsType, NEW w \in Workers, NEW pc \in Pcs, NEW a \in Accounts
    PROVE  LET j == Start(w, pc, a) IN
           /\ j \in Job /\ j.pc = pc /\ j.a = a /\ j.k = 0 /\ j.code = 0 /\ j.from = account[a]
           /\ j.epoch = seen.epoch[a] /\ j.late = Ending(a)
  <1>1. account[a] \in Row /\ seen.epoch[a] \in Nat
    BY DEF SessionsType, Seen
  <1>2. Ending(a) \in BOOLEAN
    BY DEF Ending
  <1>3. Idle \in Job /\ Idle.k = 0 /\ Idle.code = 0
    BY IdleIs DEF Idle
  <1> DEFINE i == Idle
             late == Ending(a)
             j == [i EXCEPT !.pc = pc, !.a = a, !.from = account[a], !.epoch = seen.epoch[a], !.late = late]
  <1> HIDE DEF i, late
  <1>4. i \in Job /\ i.k = 0 /\ i.code = 0 /\ late \in BOOLEAN
    BY <1>2, <1>3 DEF i, late
  <1>5. j \in Job
    BY <1>1, <1>4 DEF Job
  <1>6. /\ j.pc = pc /\ j.a = a /\ j.k = 0 /\ j.code = 0 /\ j.from = account[a]
        /\ j.epoch = seen.epoch[a] /\ j.late = late
    BY <1>4 DEF Job
  <1> QED
    BY <1>5, <1>6 DEF Start, i, late

(* Calls that count use up a bound only.                                   *)
LEMMA CallIs ==
    ASSUME SessionsType, NEW w \in Workers, Call(w)
    PROVE  job[w].pc = "idle" /\ spent' \in [calls : Nat, desk : Nat]
  BY DEF Call, SessionsType

(* An administrator logs in, with a code newer than the row remembers.     *)
LEMMA AdminLoginBegins ==
    ASSUME SessionsType, NEW w \in Workers, NEW a \in Accounts, NEW c \in Nat, AdminLogin(w, a, c)
    PROVE  \E j : Begun(w, j)
  <1> DEFINE s == Start(w, "login", a)
             j == [s EXCEPT !.code = c]
  <1>1. /\ a \in Admins /\ (c = 0 \/ c > account[a].last)
        /\ job' = [job EXCEPT ![w] = j] /\ UNCHANGED <<account, token, link, step, seen>>
    BY DEF AdminLogin, CodeFits
  <1>2. job[w].pc = "idle" /\ spent' \in [calls : Nat, desk : Nat]
    BY CallIs DEF AdminLogin
  <1>3. /\ s \in Job /\ s.pc = "login" /\ s.a = a /\ s.k = 0 /\ s.from = account[a]
        /\ s.epoch = seen.epoch[a] /\ s.late = Ending(a)
    BY StartIs DEF Pcs
  <1>4. account[a].last \in Nat
    BY DEF SessionsType, Row
  <1> HIDE DEF s
  <1>5. /\ j \in Job /\ j.pc = "login" /\ j.a = a /\ j.k = 0 /\ j.code = c /\ j.from = account[a]
        /\ j.epoch = seen.epoch[a] /\ j.late = Ending(a)
    BY <1>3 DEF Job
  <1> HIDE DEF j
  <1>6. Begun(w, j)
    BY <1>1, <1>2, <1>4, <1>5 DEF Begun, Pcs
  <1> QED
    BY <1>6

(* A customer's login, registration or change of password begins.          *)
LEMMA PlainBegins ==
    ASSUME SessionsType, NEW w \in Workers, NEW a \in Accounts,
           CustomerLogin(w, a) \/ Register(w, a) \/ ChangePassword(w, a)
    PROVE  \E j : Begun(w, j)
  <1>1. PICK pc \in {"login", "register", "reset"} :
           job' = [job EXCEPT ![w] = Start(w, pc, a)] /\ (pc = "register" => a \in Customers)
    BY DEF CustomerLogin, Register, ChangePassword
  <1> DEFINE j == Start(w, pc, a)
  <1>2. Call(w) /\ UNCHANGED <<account, token, link, step, seen>>
    BY DEF CustomerLogin, Register, ChangePassword
  <1>3. job[w].pc = "idle" /\ spent' \in [calls : Nat, desk : Nat]
    BY <1>2, CallIs
  <1>4. pc \in Pcs
    BY DEF Pcs
  <1>5. /\ j \in Job /\ j.pc = pc /\ j.a = a /\ j.k = 0 /\ j.code = 0 /\ j.from = account[a]
        /\ j.epoch = seen.epoch[a] /\ j.late = Ending(a)
    BY <1>4, StartIs
  <1> HIDE DEF j
  <1>6. Begun(w, j)
    BY <1>1, <1>2, <1>3, <1>4, <1>5 DEF Begun, j
  <1> QED
    BY <1>6

(* An administrator switches one-time codes on or off.                     *)
LEMMA CodesBegins ==
    ASSUME SessionsType, NEW w \in Workers, NEW a \in Accounts, NEW c \in Nat,
           SetupCodes(w, a, c) \/ DisableCodes(w, a, c)
    PROVE  \E j : Begun(w, j)
  <1>1. /\ a \in Admins /\ Call(w) /\ UNCHANGED <<account, token, link, step, seen>>
        /\ \/ job' = [job EXCEPT ![w] = [Start(w, "setup", a) EXCEPT !.code = c]]
           \/ job' = [job EXCEPT ![w] = Start(w, "disable", a)]
    BY DEF SetupCodes, DisableCodes, SignedIn
  <1>2. job[w].pc = "idle" /\ spent' \in [calls : Nat, desk : Nat]
    BY <1>1, CallIs
  <1>3. CASE job' = [job EXCEPT ![w] = [Start(w, "setup", a) EXCEPT !.code = c]]
    <2> DEFINE s == Start(w, "setup", a)
               j == [s EXCEPT !.code = c]
    <2>1. /\ s \in Job /\ s.pc = "setup" /\ s.a = a /\ s.k = 0 /\ s.from = account[a]
          /\ s.epoch = seen.epoch[a] /\ s.late = Ending(a)
      BY StartIs DEF Pcs
    <2> HIDE DEF s
    <2>2. /\ j \in Job /\ j.pc = "setup" /\ j.a = a /\ j.k = 0 /\ j.from = account[a]
          /\ j.epoch = seen.epoch[a] /\ j.late = Ending(a)
      BY <2>1 DEF Job
    <2>3. job' = [job EXCEPT ![w] = j]
      BY <1>3 DEF s
    <2> HIDE DEF j
    <2>4. Begun(w, j)
      BY <1>1, <1>2, <2>2, <2>3 DEF Begun, Pcs
    <2> QED
      BY <2>4
  <1>4. CASE job' = [job EXCEPT ![w] = Start(w, "disable", a)]
    <2> DEFINE j == Start(w, "disable", a)
    <2>1. /\ j \in Job /\ j.pc = "disable" /\ j.a = a /\ j.k = 0 /\ j.from = account[a]
          /\ j.epoch = seen.epoch[a] /\ j.late = Ending(a)
      BY StartIs DEF Pcs
    <2>2. job' = [job EXCEPT ![w] = j]
      BY <1>4
    <2> HIDE DEF j
    <2>3. Begun(w, j)
      BY <1>1, <1>2, <2>1, <2>2 DEF Begun, Pcs
    <2> QED
      BY <2>3
  <1> QED
    BY <1>1, <1>3, <1>4

(* A refresh token is rotated, or given up in a logout.                    *)
LEMMA TokenBegins ==
    ASSUME SessionsType, NEW w \in Workers, NEW t \in DOMAIN token, Rotate(w, t) \/ Logout(w, t)
    PROVE  \E j : Begun(w, j)
  <1> DEFINE a == token[t].a
  <1>1. Call(w) /\ UNCHANGED <<account, token, link, step, seen>>
    BY DEF Rotate, Logout
  <1>2. job[w].pc = "idle" /\ spent' \in [calls : Nat, desk : Nat]
    BY <1>1, CallIs
  <1>3. a \in Accounts /\ t \in Nat /\ token[t].late \in BOOLEAN
    <2>1. token[t] \in TokenRow /\ t \in 1..Len(token)
      BY DEF SessionsType
    <2> QED
      BY <2>1 DEF TokenRow
  <1> HIDE DEF a
  <1>4. CASE Rotate(w, t)
    <2> DEFINE s == Start(w, "rotated", a)
               late == s.late \/ token[t].late
               j == [s EXCEPT !.t = t, !.late = late]
    <2>1. job' = [job EXCEPT ![w] = j] /\ ~ Held(t) /\ token[t].st = "live"
      BY <1>4 DEF Rotate, CanRotate, a
    <2>2. /\ s \in Job /\ s.pc = "rotated" /\ s.a = a /\ s.k = 0 /\ s.from = account[a]
          /\ s.epoch = seen.epoch[a] /\ s.late = Ending(a)
      BY <1>3, StartIs DEF Pcs
    <2>3. late \in BOOLEAN /\ (Ending(a) => late) /\ (token[t].late => late)
      BY <2>2
    <2> HIDE DEF s, late
    <2>4. /\ j \in Job /\ j.pc = "rotated" /\ j.a = a /\ j.k = 0 /\ j.from = account[a]
          /\ j.epoch = seen.epoch[a] /\ j.late = late /\ j.t = t
      BY <1>3, <2>2, <2>3 DEF Job
    <2> HIDE DEF j
    <2>5. Begun(w, j)
      BY <1>1, <1>2, <1>3, <2>1, <2>3, <2>4 DEF Begun, Pcs, a
    <2> QED
      BY <2>5
  <1>5. CASE Logout(w, t)
    <2> DEFINE s == Start(w, "logout", a)
               j == [s EXCEPT !.t = t]
    <2>1. job' = [job EXCEPT ![w] = j]
      BY <1>5 DEF Logout, a
    <2>2. /\ s \in Job /\ s.pc = "logout" /\ s.a = a /\ s.k = 0 /\ s.from = account[a]
          /\ s.epoch = seen.epoch[a] /\ s.late = Ending(a)
      BY <1>3, StartIs DEF Pcs
    <2> HIDE DEF s
    <2>3. /\ j \in Job /\ j.pc = "logout" /\ j.a = a /\ j.k = 0 /\ j.from = account[a]
          /\ j.epoch = seen.epoch[a] /\ j.late = Ending(a)
      BY <1>3, <2>2 DEF Job
    <2> HIDE DEF j
    <2>4. Begun(w, j)
      BY <1>1, <1>2, <1>3, <2>1, <2>3 DEF Begun, Pcs
    <2> QED
      BY <2>4
  <1> QED
    BY <1>4, <1>5

(* A password link is used: only an open one is accepted.                  *)
LEMMA ResetBegins ==
    ASSUME SessionsType, NEW w \in Workers, NEW k \in DOMAIN link, Reset(w, k)
    PROVE  \E j : Begun(w, j)
  <1> DEFINE a == link[k].a
             s == Start(w, "reset", a)
             j == [s EXCEPT !.k = k]
  <1>1. /\ Call(w) /\ link[k].st = "open" /\ job' = [job EXCEPT ![w] = j]
        /\ seen' = IF {v \in Workers \ {w} : job[v].a = a /\ job[v].k > 0} = {} THEN seen
                   ELSE [seen EXCEPT !.shared = @ \cup {i \in DOMAIN link : link[i].a = a}]
        /\ UNCHANGED <<account, token, link, step>>
    BY DEF Reset, Good
  <1>2. job[w].pc = "idle" /\ spent' \in [calls : Nat, desk : Nat]
    BY <1>1, CallIs
  <1>3. a \in Accounts /\ k \in Nat /\ k > 0
    <2>1. link[k] \in LinkRow /\ k \in 1..Len(link)
      BY DEF SessionsType
    <2> QED
      BY <2>1 DEF LinkRow
  <1> HIDE DEF a
  <1>4. /\ s \in Job /\ s.pc = "reset" /\ s.a = a /\ s.from = account[a]
        /\ s.epoch = seen.epoch[a] /\ s.late = Ending(a)
    BY <1>3, StartIs DEF Pcs
  <1> HIDE DEF s
  <1>5. /\ j \in Job /\ j.pc = "reset" /\ j.a = a /\ j.k = k /\ j.from = account[a]
        /\ j.epoch = seen.epoch[a] /\ j.late = Ending(a)
    BY <1>3, <1>4 DEF Job
  <1> HIDE DEF j
  <1>6. Begun(w, j)
    BY <1>1, <1>2, <1>3, <1>5 DEF Begun, Pcs, a
  <1> QED
    BY <1>6

-----------------------------------------------------------------------------
(* Steps keep the invariant.                                               *)

(* A call that begins (all that read first and write at their commit).     *)
LEMMA BeginKeeps ==
    ASSUME SessionsInv, NEW w \in Workers, NEW j, Begun(w, j)
    PROVE  SessionsInv'
  <1> DEFINE others == {v \in Workers \ {w} : job[v].a = j.a /\ job[v].k > 0}
  <1> USE DEF SessionsInv
  <1>1. /\ job' \in [Workers -> Job] /\ job'[w] = j /\ \A v \in Workers \ {w} : job'[v] = job[v]
        /\ job[w].pc = "idle" /\ j \in Job /\ j.a \in Accounts /\ j.pc \in Pcs \ {"idle", "revoking"}
        /\ UNCHANGED <<account, token, link, step>>
    BY DEF Begun, SessionsType
  <1>2. DOMAIN link \subseteq 1..MaxLinks /\ DOMAIN link \subseteq Nat
    BY SessionsAssumption DEF SessionsType
  <1>3. /\ seen' \in Seen /\ seen'.epoch = seen.epoch /\ seen'.codes = seen.codes /\ seen'.twice = seen.twice
        /\ seen'.torn = seen.torn /\ seen'.uses = seen.uses
        /\ seen.shared \subseteq seen'.shared /\ seen'.shared \subseteq DOMAIN link
        /\ j.k > 0 /\ others # {} => \A i \in DOMAIN link : link[i].a = j.a => i \in seen'.shared
    <2> DEFINE both == seen.shared \cup {i \in DOMAIN link : link[i].a = j.a}
               f == [seen EXCEPT !.shared = both]
    <2>1. seen' = seen \/ seen' = f
      BY DEF Begun
    <2>2. j.k > 0 /\ others # {} => seen' = f
      BY DEF Begun
    <2>3. both \in SUBSET Nat /\ seen.shared \subseteq both /\ both \subseteq DOMAIN link
      BY <1>2 DEF LinksKnown
    <2>4. \A i \in DOMAIN link : link[i].a = j.a => i \in both
      OBVIOUS
    <2>5. seen \in Seen /\ seen.shared \subseteq DOMAIN link
      BY DEF SessionsType, LinksKnown
    <2> HIDE DEF both, others
    <2>6. /\ f \in Seen /\ f.epoch = seen.epoch /\ f.codes = seen.codes /\ f.twice = seen.twice
          /\ f.torn = seen.torn /\ f.uses = seen.uses /\ f.shared = both
      BY <2>3, <2>5 DEF Seen
    <2> HIDE DEF f
    <2> QED
      BY <2>1, <2>2, <2>3, <2>4, <2>5, <2>6
  <1> HIDE DEF others
  <1>4. SessionsType'
    BY <1>1, <1>3 DEF SessionsType, Begun
  <1>5. Rotations'
    <2>1. j.pc = "rotated" => /\ j.t \in DOMAIN token /\ token[j.t].st = "live" /\ token[j.t].a = j.a
                              /\ \A v \in Workers : ~ (job[v].pc = "rotated" /\ job[v].t = j.t)
      BY DEF Begun, Held
    <2> QED
      BY <1>1, <2>1 DEF Rotations
  <1>6. Heirs'
    BY <1>1 DEF Heirs
  <1>7. Epochs'
    <2>1. j.epoch = seen.epoch[j.a] /\ seen.epoch[j.a] \in Nat
      BY <1>1 DEF Begun, SessionsType, Seen
    <2> QED
      BY <1>1, <1>3, <2>1 DEF Epochs, Makes
  <1>8. Reached'
    <2>1. \A v \in Workers : job[v].pc = "revoking" /\ job[v].a = j.a => j.late
      BY DEF Begun, Ending
    <2> QED
      BY <1>1, <2>1 DEF Reached, Makes, Ends
  <1>9. RevocationReaches'
    BY <1>1, <1>3 DEF RevocationReaches
  <1>10. CodesKnown'
    <2>1. /\ j.pc = "login" /\ j.code > 0 => j.a \in Admins /\ j.from.last < j.code
          /\ j.pc \in {"setup", "disable"} => j.a \in Admins
          /\ j.pc = "register" => j.a \in Customers /\ j.code = 0
      BY DEF Begun
    <2> QED
      BY <1>1, <1>3, <2>1 DEF CodesKnown
  <1>11. LinksKnown'
    <2>1. j.k > 0 => j.k \in DOMAIN link /\ link[j.k].st = "open" /\ link[j.k].a = j.a
      BY DEF Begun
    <2>2. ~ (job[w].k > 0)
      BY <1>1 DEF LinksKnown, Linked
    <2>3. \A v \in Workers : job'[v].k > 0 => job'[v].k \in DOMAIN link /\ job'[v].a = link[job'[v].k].a /\ job'[v].pc # "idle"
      BY <1>1, <2>1 DEF LinksKnown, Linked
    <2>4. ASSUME NEW k \in DOMAIN link, k \notin seen'.shared
          PROVE  /\ seen.uses[k] <= 1
                 /\ link[k].st = "open" => seen.uses[k] = 0
                 /\ \A x \in Workers : job'[x].k = k =>
                       /\ seen.uses[k] = 0
                       /\ \A v \in Workers : job'[v].k > 0 /\ job'[v].a = link[k].a => v = x
      <3>1. k \notin seen.shared /\ k > 0
        BY <1>2, <1>3, <2>4
      <3>2. /\ seen.uses[k] <= 1
            /\ link[k].st = "open" => seen.uses[k] = 0
            /\ \A x \in Workers : job[x].k = k =>
                  /\ seen.uses[k] = 0
                  /\ \A v \in Workers : job[v].k > 0 /\ job[v].a = link[k].a => v = x
        BY <3>1 DEF LinksKnown, Linked
      <3>3. ASSUME NEW x \in Workers, job'[x].k = k
            PROVE  /\ seen.uses[k] = 0
                   /\ \A v \in Workers : job'[v].k > 0 /\ job'[v].a = link[k].a => v = x
        <4>1. link[k].a = j.a /\ j.k > 0 => others = {}
          BY <1>3, <2>4
        <4>2. CASE x = w
          <5>1. j.k = k /\ j.k > 0 /\ link[k].a = j.a /\ seen.uses[k] = 0
            BY <1>1, <2>1, <3>1, <3>2, <3>3, <4>2
          <5> QED
            BY <1>1, <4>1, <4>2, <5>1 DEF others
        <4>3. CASE x # w
          <5>1. job[x].k = k /\ job[x].a = link[k].a
            BY <1>1, <3>1, <3>3, <4>3 DEF LinksKnown, Linked
          <5>2. ~ (j.k > 0 /\ j.a = link[k].a)
            BY <3>1, <4>1, <4>3, <5>1 DEF others
          <5> QED
            BY <1>1, <3>2, <5>1, <5>2
        <4> QED
          BY <4>2, <4>3
      <3> QED
        BY <3>2, <3>3
    <2>5. \A k \in 1..MaxLinks : k \notin DOMAIN link => seen.uses[k] = 0
      BY DEF LinksKnown
    <2>6. link' = link /\ seen'.uses = seen.uses /\ seen'.shared \subseteq DOMAIN link
      BY <1>1, <1>3
    <2> QED
      BY <2>3, <2>4, <2>5, <2>6 DEF LinksKnown, Linked
  <1> QED
    BY <1>4, <1>5, <1>6, <1>7, <1>8, <1>9, <1>10, <1>11

(* A call that is over is forgotten.                                       *)
LEMMA StopIs ==
    ASSUME SessionsInv, NEW w \in Workers, Finish(w)
    PROVE  /\ job' \in [Workers -> Job] /\ \A v \in Workers \ {w} : job'[v] = job[v]
           /\ job'[w].pc = "idle" /\ job'[w].k = 0 /\ job'[w].a = NoAccount
           /\ \A v \in Workers : job'[v].pc # "idle" => v # w /\ job'[v] = job[v] /\ job'[v].a \in Accounts
           /\ \A v \in Workers : job'[v].k > 0 => v # w /\ job'[v] = job[v]
  <1>1. Idle \in Job /\ Idle.pc = "idle" /\ Idle.k = 0 /\ Idle.a = NoAccount
    BY IdleIs
  <1>2. job \in [Workers -> Job] /\ \A v \in Workers : job[v].pc # "idle" => job[v].a \in Accounts
    BY DEF SessionsInv, SessionsType
  <1>3. job' \in [Workers -> Job] /\ job'[w] = Idle /\ \A v \in Workers \ {w} : job'[v] = job[v]
    BY <1>1, <1>2 DEF Finish
  <1> QED
    BY <1>1, <1>2, <1>3

(* A call that fails, or that the database aborts.                         *)
LEMMA StopKeeps ==
    ASSUME SessionsInv, NEW w \in Workers, Finish(w), UNCHANGED <<account, token, link, step, spent, seen>>
    PROVE  SessionsInv'
  <1>1. /\ job' \in [Workers -> Job]
        /\ \A v \in Workers : job'[v].pc # "idle" => v # w /\ job'[v] = job[v] /\ job'[v].a \in Accounts
        /\ \A v \in Workers : job'[v].k > 0 => v # w /\ job'[v] = job[v]
    BY StopIs
  <1> USE DEF SessionsInv
  <1>2. SessionsType'
    BY <1>1 DEF SessionsType
  <1>3. Rotations'
    BY <1>1 DEF Rotations
  <1>4. Heirs' /\ RevocationReaches'
    BY DEF Heirs, RevocationReaches
  <1>5. Epochs'
    BY <1>1 DEF Epochs, Makes
  <1>6. Reached'
    BY <1>1 DEF Reached, Makes, Ends
  <1>7. CodesKnown'
    BY <1>1 DEF CodesKnown
  <1>8. LinksKnown'
    <2>1. DOMAIN link \subseteq 1..MaxLinks
      BY SessionsAssumption DEF SessionsType
    <2>2. \A k \in 1..MaxLinks : k > 0
      OBVIOUS
    <2> QED
      BY <1>1, <2>1, <2>2 DEF LinksKnown, Linked
  <1> QED
    BY <1>2, <1>3, <1>4, <1>5, <1>6, <1>7, <1>8

(* A call that is about to end all sessions of the account has found the   *)
(* tokens that are live, and every other call of the account is marked.    *)
Revoking(w, j) ==
    /\ j \in Job /\ j.a \in Accounts /\ j.pc = "revoking" /\ j.targets = LiveOf(j.a)
    /\ j.k > 0 => j.k = job[w].k /\ j.a = job[w].a
    /\ job' = [v \in Workers |-> IF v = w THEN j
                                 ELSE IF job[v].a = j.a THEN [job[v] EXCEPT !.late = TRUE] ELSE job[v]]
    /\ spent' \in [calls : Nat, desk : Nat]
    /\ UNCHANGED <<account, token, link, step, seen>>

(* A replayed token or a new password begins to end the sessions.          *)
LEMMA RevokingKeeps ==
    ASSUME SessionsInv, NEW w \in Workers, NEW j, Revoking(w, j)
    PROVE  SessionsInv'
  <1> USE DEF SessionsInv
  <1>1. \A v \in Workers : job[v] \in Job
    BY DEF SessionsType
  <1>2. ASSUME NEW v \in Workers, v # w
        PROVE  /\ job'[v] \in Job /\ job'[v].pc = job[v].pc /\ job'[v].a = job[v].a /\ job'[v].t = job[v].t
               /\ job'[v].k = job[v].k /\ job'[v].code = job[v].code /\ job'[v].from = job[v].from
               /\ job'[v].targets = job[v].targets /\ job'[v].epoch = job[v].epoch
               /\ (job[v].late => job'[v].late) /\ (job[v].a = j.a => job'[v].late)
    <2> DEFINE i == job[v]
               f == [i EXCEPT !.late = TRUE]
    <2>1. job'[v] = IF i.a = j.a THEN f ELSE i
      BY <1>2 DEF Revoking
    <2>2. i \in Job
      BY <1>1
    <2> HIDE DEF i
    <2>3. /\ f \in Job /\ f.pc = i.pc /\ f.a = i.a /\ f.t = i.t /\ f.k = i.k /\ f.code = i.code /\ f.from = i.from
          /\ f.targets = i.targets /\ f.epoch = i.epoch /\ f.late
      BY <2>2 DEF Job
    <2> HIDE DEF f
    <2>4. /\ job'[v] \in Job /\ job'[v].pc = i.pc /\ job'[v].a = i.a /\ job'[v].t = i.t
          /\ job'[v].k = i.k /\ job'[v].code = i.code /\ job'[v].from = i.from
          /\ job'[v].targets = i.targets /\ job'[v].epoch = i.epoch
          /\ (i.late => job'[v].late) /\ (i.a = j.a => job'[v].late)
      BY <2>1, <2>2, <2>3
    <2> QED
      BY <2>4 DEF i
  <1>3. job'[w] = j /\ j \in Job /\ j.pc = "revoking" /\ j.a \in Accounts /\ j.targets = LiveOf(j.a)
    BY DEF Revoking
  <1>4. job' \in [Workers -> Job]
    <2>1. DOMAIN job' = Workers /\ job' = [v \in Workers |-> job'[v]]
      BY DEF Revoking
    <2>2. \A v \in Workers : job'[v] \in Job
      BY <1>2, <1>3
    <2> QED
      BY <2>1, <2>2
  <1>5. UNCHANGED <<account, token, link, step, seen>> /\ spent' \in [calls : Nat, desk : Nat]
    BY DEF Revoking
  <1>6. SessionsType'
    BY <1>2, <1>3, <1>4, <1>5 DEF SessionsType
  <1>7. Rotations'
    <2>1. \A v \in Workers : job'[v].pc = "rotated" =>
             v # w /\ job[v].pc = "rotated" /\ job'[v].t = job[v].t /\ job'[v].a = job[v].a
      BY <1>2, <1>3
    <2> QED
      BY <1>5, <2>1 DEF Rotations
  <1>8. Heirs' /\ RevocationReaches'
    BY <1>5 DEF Heirs, RevocationReaches
  <1>9. Epochs'
    <2>1. \A v \in Workers : job'[v].pc \in {"login", "register", "rotated"} =>
             /\ job[v].pc \in {"login", "register", "rotated"} /\ job'[v].a = job[v].a
             /\ job'[v].epoch = job[v].epoch /\ (job[v].late => job'[v].late)
      BY <1>2, <1>3
    <2> QED
      BY <1>5, <2>1 DEF Epochs, Makes
  <1>10. Reached'
    <2>1. \A x \in Workers : job'[x].pc \in {"login", "register", "rotated"} =>
             /\ job[x].pc \in {"login", "register", "rotated"} /\ job'[x].a = job[x].a
             /\ (job[x].late => job'[x].late) /\ (job[x].a = j.a => job'[x].late)
      BY <1>2, <1>3
    <2>2. ASSUME NEW v \in Workers, job'[v].pc = "revoking"
          PROVE  /\ \A t \in DOMAIN token : token[t].a = job'[v].a /\ token[t].st = "live" /\ ~ token[t].late
                       => t \in job'[v].targets
                 /\ \A x \in Workers : job'[x].pc \in {"login", "register", "rotated"} /\ job'[x].a = job'[v].a
                       => job'[x].late
      <3>1. CASE v = w
        BY <1>3, <2>1, <3>1 DEF LiveOf
      <3>2. CASE v # w
        <4>1. job[v].pc = "revoking" /\ job'[v].a = job[v].a /\ job'[v].targets = job[v].targets
          BY <1>2, <2>2, <3>2
        <4> QED
          BY <2>1, <4>1 DEF Reached, Ends, Makes
      <3> QED
        BY <3>1, <3>2
    <2> QED
      BY <1>5, <2>2 DEF Reached, Ends, Makes
  <1>11. CodesKnown'
    <2>1. \A v \in Workers : job'[v].pc \in {"login", "setup", "disable", "register"} =>
             /\ job[v].pc = job'[v].pc /\ job'[v].a = job[v].a /\ job'[v].code = job[v].code
             /\ job'[v].from = job[v].from
      BY <1>2, <1>3
    <2> QED
      BY <1>5, <2>1 DEF CodesKnown
  <1>12. LinksKnown'
    <2>1. \A v \in Workers : job'[v].k > 0 => job'[v].k = job[v].k /\ job'[v].a = job[v].a /\ job'[v].pc # "idle"
      <3>1. j.k > 0 => j.k = job[w].k /\ j.a = job[w].a
        BY DEF Revoking
      <3>2. \A v \in Workers : job[v].k > 0 => job[v].pc # "idle"
        BY DEF LinksKnown, Linked
      <3> QED
        BY <1>2, <1>3, <3>1, <3>2
    <2>2. DOMAIN link \subseteq 1..MaxLinks /\ \A k \in 1..MaxLinks : k > 0
      BY SessionsAssumption DEF SessionsType
    <2> QED
      BY <1>5, <2>1, <2>2 DEF LinksKnown, Linked
  <1> QED
    BY <1>6, <1>7, <1>8, <1>9, <1>10, <1>11, <1>12

(* A replayed token.                                                       *)
LEMMA ReplayKeeps ==
    ASSUME SessionsInv, NEW w \in Workers, NEW t \in DOMAIN token, Replay(w, t)
    PROVE  SessionsInv'
  <1> DEFINE a == token[t].a
             s == Start(w, "revoking", a)
             live == LiveOf(a)
             none == -1
             j == [s EXCEPT !.k = none, !.targets = live]
  <1>1. SessionsType
    BY DEF SessionsInv
  <1>2. a \in Accounts
    <2>1. token[t] \in TokenRow
      BY <1>1 DEF SessionsType
    <2> QED
      BY <2>1 DEF TokenRow
  <1>3. spent' \in [calls : Nat, desk : Nat] /\ UNCHANGED <<account, token, link, step, seen>>
    BY <1>1, CallIs DEF Replay
  <1>4. job' = [v \in Workers |-> IF v = w THEN j
                                  ELSE IF job[v].a = a THEN [job[v] EXCEPT !.late = TRUE] ELSE job[v]]
    BY DEF Replay
  <1>5. live \in SUBSET Nat
    <2>1. DOMAIN token \subseteq Nat
      BY <1>1 DEF SessionsType
    <2> QED
      BY <2>1 DEF LiveOf
  <1> HIDE DEF a
  <1>6. s \in Job /\ s.pc = "revoking" /\ s.a = a
    BY <1>1, <1>2, StartIs DEF Pcs
  <1>7. none \in Int /\ ~ (none > 0)
    OBVIOUS
  <1> HIDE DEF s, live, none
  <1>8. j \in Job /\ j.pc = "revoking" /\ j.a = a /\ j.k = none /\ j.targets = live
    BY <1>5, <1>6, <1>7 DEF Job
  <1> HIDE DEF j
  <1>9. Revoking(w, j)
    BY <1>2, <1>3, <1>4, <1>7, <1>8 DEF Revoking, live
  <1> QED
    BY <1>9, RevokingKeeps

(* A new password.                                                         *)
LEMMA WriteKeeps ==
    ASSUME SessionsInv, NEW w \in Workers, WritePassword(w)
    PROVE  SessionsInv'
  <1> DEFINE i == job[w]
             a == i.a
             live == LiveOf(a)
             j == [i EXCEPT !.pc = "revoking", !.targets = live]
  <1>1. SessionsType
    BY DEF SessionsInv
  <1>2. a \in Accounts /\ i \in Job /\ spent \in [calls : Nat, desk : Nat]
    BY <1>1 DEF SessionsType, WritePassword
  <1>3. UNCHANGED <<account, token, link, step, spent, seen>>
    BY DEF WritePassword
  <1>4. job' = [v \in Workers |-> IF v = w THEN j
                                  ELSE IF job[v].a = a THEN [job[v] EXCEPT !.late = TRUE] ELSE job[v]]
    BY DEF WritePassword, Sessions
  <1>5. live \in SUBSET Nat
    <2>1. DOMAIN token \subseteq Nat
      BY <1>1 DEF SessionsType
    <2> QED
      BY <2>1 DEF LiveOf
  <1> HIDE DEF i, live
  <1>6. j \in Job /\ j.pc = "revoking" /\ j.a = a /\ j.k = i.k /\ j.targets = live
    BY <1>2, <1>5 DEF Job, Pcs
  <1> HIDE DEF j
  <1>7. Revoking(w, j)
    BY <1>2, <1>3, <1>4, <1>6 DEF Revoking, live, i
  <1> QED
    BY <1>7, RevokingKeeps

-----------------------------------------------------------------------------
(* Tokens.                                                                 *)

(* A call that is over has issued a token u, after its parent p.           *)
Issued(w, p) ==
    /\ Finish(w) /\ job[w].pc \in {"login", "rotated"}
    /\ p = 0 \/ (job[w].pc = "rotated" /\ p = job[w].t)
    /\ token' \in Seq(TokenRow) /\ Len(token') = Len(token) + 1
    /\ LET u == token'[Len(token')] IN
       u.a = job[w].a /\ u.st = "live" /\ u.parent = p /\ u.epoch = job[w].epoch /\ u.late = job[w].late
    /\ \A t \in 1..Len(token) :
          /\ token'[t].a = token[t].a /\ token'[t].parent = token[t].parent /\ token'[t].epoch = token[t].epoch
          /\ token'[t].late = token[t].late /\ token'[t].st = IF t = p THEN "revoked" ELSE token[t].st

(* Appending a row to the table of tokens.                                 *)
LEMMA IssueIs ==
    ASSUME SessionsType, NEW w \in Workers, job[w].pc # "idle", NEW p \in Nat
    PROVE  LET q == Issue(job[w], p) IN
           /\ q \in Seq(TokenRow) /\ Len(q) = Len(token) + 1
           /\ \A t \in 1..Len(token) : q[t] = token[t]
           /\ LET u == q[Len(token) + 1] IN
              u.a = job[w].a /\ u.st = "live" /\ u.parent = p /\ u.epoch = job[w].epoch /\ u.late = job[w].late
  <1> DEFINE j == job[w]
             u == [a |-> j.a, st |-> "live", parent |-> p, epoch |-> j.epoch, late |-> j.late]
  <1>1. j.a \in Accounts /\ j.epoch \in Nat /\ j.late \in BOOLEAN
    <2>1. j \in Job /\ j.a \in Accounts
      BY DEF SessionsType
    <2> QED
      BY <2>1 DEF Job
  <1> HIDE DEF j
  <1>2. /\ u \in TokenRow
        /\ u.a = j.a /\ u.st = "live" /\ u.parent = p /\ u.epoch = j.epoch /\ u.late = j.late
    BY <1>1 DEF TokenRow
  <1> HIDE DEF u
  <1>3. token \in Seq(TokenRow)
    BY DEF SessionsType
  <1>4. /\ Append(token, u) \in Seq(TokenRow) /\ Len(Append(token, u)) = Len(token) + 1
        /\ \A t \in 1..Len(token) : Append(token, u)[t] = token[t]
        /\ Append(token, u)[Len(token) + 1] = u
    BY <1>2, <1>3
  <1>5. Issue(job[w], p) = Append(token, u)
    BY DEF Issue, u, j
  <1> QED
    BY <1>2, <1>4, <1>5 DEF j

(* A session that began while all of the account were being ended is       *)
(* marked, and a token has one heir.                                       *)
LEMMA IssuedKeeps ==
    ASSUME SessionsInv, NEW w \in Workers, NEW p, Issued(w, p), UNCHANGED <<link, step, spent>>,
           \/ UNCHANGED <<account, seen>>
           \/ seen'.epoch = seen.epoch
    PROVE  Rotations' /\ Heirs' /\ Epochs' /\ Reached' /\ RevocationReaches'
  <1> USE DEF SessionsInv
  <1>1. /\ \A v \in Workers : job'[v].pc # "idle" => v # w /\ job'[v] = job[v] /\ job'[v].a \in Accounts
    BY StopIs DEF Issued
  <1> DEFINE n == Len(token)
             j == job[w]
  <1>2. /\ n \in Nat /\ DOMAIN token = 1..n /\ DOMAIN token' = 1..(n + 1) /\ Len(token') = n + 1
        /\ token \in Seq(TokenRow)
    BY DEF Issued, SessionsType
  <1>3. /\ token'[n + 1].a = j.a /\ token'[n + 1].st = "live" /\ token'[n + 1].parent = p
        /\ token'[n + 1].epoch = j.epoch /\ token'[n + 1].late = j.late
    BY <1>2 DEF Issued
  <1>4. \A t \in 1..n :
          /\ token'[t].a = token[t].a /\ token'[t].parent = token[t].parent /\ token'[t].epoch = token[t].epoch
          /\ token'[t].late = token[t].late /\ token'[t].st = IF t = p THEN "revoked" ELSE token[t].st
    BY DEF Issued
  <1>5. p = 0 \/ (j.pc = "rotated" /\ p = j.t /\ p \in 1..n /\ token[p].st = "live" /\ token[p].a = j.a)
    BY <1>2 DEF Issued, Rotations
  <1>6. j.pc \in {"login", "rotated"} /\ j \in Job /\ j.a \in Accounts
    BY DEF Issued, SessionsType
  <1>7. seen'.epoch = seen.epoch
    OBVIOUS
  <1>8. \A t \in 1..n : token[t].parent \in Nat /\ token[t].a \in Accounts /\ token[t].st \in {"live", "revoked", "gone"}
    <2>1. \A t \in 1..n : token[t] \in TokenRow
      BY <1>2
    <2> QED
      BY <2>1 DEF TokenRow
  <1> HIDE DEF n, j
  <1>9. Rotations'
    <2>1. ASSUME NEW v \in Workers, job'[v].pc = "rotated"
          PROVE  /\ v # w /\ job'[v] = job[v] /\ job[v].t \in 1..(n + 1) /\ token'[job[v].t].st = "live"
                 /\ token'[job[v].t].a = job[v].a
      <3>1. v # w /\ job'[v] = job[v] /\ job[v].pc = "rotated"
        BY <1>1, <2>1
      <3>2. job[v].t \in 1..n /\ token[job[v].t].st = "live" /\ token[job[v].t].a = job[v].a
        BY <1>2, <3>1 DEF Rotations
      <3>3. job[v].t # p
        BY <1>5, <3>1, <3>2, <1>2 DEF Rotations, j
      <3> QED
        BY <1>2, <1>4, <3>1, <3>2, <3>3
    <2> QED
      BY <1>2, <2>1 DEF Rotations
  <1>10. Heirs'
    <2>1. \A t \in 1..n : token[t].parent <= n /\ (token[t].parent # 0 => token[token[t].parent].st # "live")
      BY <1>2 DEF Heirs
    <2>2. p \in Nat /\ p <= n
      BY <1>2, <1>5
    <2>3. \A t \in 1..(n + 1) : token'[t].parent <= n + 1
      BY <1>2, <1>3, <1>4, <1>8, <2>1, <2>2
    <2>4. ASSUME NEW t \in 1..(n + 1), token'[t].parent # 0 PROVE token'[token'[t].parent].st # "live"
      <3>1. CASE t = n + 1
        BY <1>2, <1>3, <1>4, <1>5, <2>4, <3>1
      <3>2. CASE t # n + 1
        <4>1. t \in 1..n /\ token'[t].parent = token[t].parent /\ token[t].parent \in 1..n
          BY <1>2, <1>4, <1>8, <2>1, <2>4, <3>2
        <4> QED
          BY <1>4, <2>1, <2>4, <4>1
      <3> QED
        BY <3>1, <3>2
    <2>5. ASSUME NEW t \in 1..(n + 1), NEW u \in 1..(n + 1), token'[t].parent # 0, token'[t].parent = token'[u].parent
          PROVE  t = u
      <3>1. \A x \in 1..n : token'[x].parent = token[x].parent
        BY <1>4
      <3>2. \A x \in 1..n : p # 0 => token[x].parent # p
        BY <1>5, <2>1
      <3>3. \A x, y \in 1..n : token[x].parent # 0 /\ token[x].parent = token[y].parent => x = y
        BY <1>2 DEF Heirs
      <3>4. \A x \in 1..(n + 1) : x = n + 1 \/ x \in 1..n
        BY <1>2
      <3> QED
        BY <1>3, <2>5, <3>1, <3>2, <3>3, <3>4
    <2> QED
      BY <1>2, <2>3, <2>4, <2>5 DEF Heirs
  <1>11. /\ j.epoch <= seen.epoch[j.a] /\ (j.epoch < seen.epoch[j.a] => j.late)
    BY <1>6 DEF Epochs, Makes, j
  <1>12. \A x \in 1..(n + 1) : x = n + 1 \/ x \in 1..n
    BY <1>2
  <1>13. Epochs'
    <2>1. \A t \in 1..(n + 1) : token'[t].epoch <= seen.epoch[token'[t].a]
      BY <1>2, <1>3, <1>4, <1>11, <1>12 DEF Epochs
    <2> QED
      BY <1>1, <1>2, <1>7, <2>1 DEF Epochs, Makes
  <1>14. Reached'
    <2>1. ASSUME NEW v \in Workers, job'[v].pc = "revoking"
          PROVE  /\ \A t \in 1..(n + 1) : token'[t].a = job'[v].a /\ token'[t].st = "live" /\ ~ token'[t].late
                       => t \in job'[v].targets
                 /\ \A x \in Workers : job'[x].pc \in {"login", "register", "rotated"} /\ job'[x].a = job'[v].a
                       => job'[x].late
      <3>1. job'[v] = job[v] /\ job[v].pc = "revoking"
        BY <1>1, <2>1
      <3>2. j.a = job[v].a => j.late
        BY <1>6, <3>1 DEF Reached, Ends, Makes, j
      <3>3. \A t \in 1..n : token[t].a = job[v].a /\ token[t].st = "live" /\ ~ token[t].late => t \in job[v].targets
        BY <1>2, <3>1 DEF Reached, Ends
      <3>4. \A t \in 1..n : token'[t].st = "live" => token[t].st = "live"
        BY <1>4
      <3>5. \A t \in 1..(n + 1) : token'[t].a = job'[v].a /\ token'[t].st = "live" /\ ~ token'[t].late
                       => t \in job'[v].targets
        BY <1>3, <1>4, <1>12, <3>1, <3>2, <3>3, <3>4
      <3>6. \A x \in Workers : job'[x].pc \in {"login", "register", "rotated"} /\ job'[x].a = job'[v].a
                       => job'[x].late
        BY <1>1, <3>1 DEF Reached, Ends, Makes
      <3> QED
        BY <3>5, <3>6
    <2> QED
      BY <1>2, <2>1 DEF Reached, Ends, Makes
  <1>15. RevocationReaches'
    <2>1. \A t \in 1..n : token'[t].st = "live" => token[t].st = "live"
      BY <1>4
    <2>2. \A t \in 1..n : token[t].st = "live" /\ token[t].epoch < seen.epoch[token[t].a] => token[t].late
      BY <1>2 DEF RevocationReaches
    <2>3. \A t \in 1..(n + 1) : token'[t].st = "live" /\ token'[t].epoch < seen.epoch[token'[t].a] => token'[t].late
      BY <1>3, <1>4, <1>11, <1>12, <2>1, <2>2
    <2> QED
      BY <1>2, <1>7, <2>3 DEF RevocationReaches
  <1> QED
    BY <1>9, <1>10, <1>13, <1>14, <1>15

(* What a step leaves alone: the codes, and the links.                     *)
LEMMA CodesStay ==
    ASSUME CodesKnown, UNCHANGED account,
           seen'.codes = seen.codes /\ seen'.twice = seen.twice /\ seen'.torn = seen.torn,
           \A v \in Workers : job'[v].pc # "idle" => job'[v] = job[v]
    PROVE  CodesKnown'
  BY DEF CodesKnown

(* A step that leaves the links alone leaves LinksKnown alone.             *)
LEMMA LinksStay ==
    ASSUME SessionsType, LinksKnown, UNCHANGED link,
           seen'.uses = seen.uses /\ seen'.shared = seen.shared,
           \A v \in Workers : job'[v].k > 0 => job'[v] = job[v]
    PROVE  LinksKnown'
  <1>1. DOMAIN link \subseteq 1..MaxLinks /\ \A k \in 1..MaxLinks : k > 0
    BY SessionsAssumption DEF SessionsType
  <1> QED
    BY <1>1 DEF LinksKnown, Linked

(* A rotation, of an administrator's or a customer's token.                *)
LEMMA HeirKeeps ==
    ASSUME SessionsInv, NEW w \in Workers, AdminHeir(w) \/ CustomerHeir(w)
    PROVE  SessionsInv'
  <1> USE DEF SessionsInv
  <1> DEFINE t == job[w].t
             n == Len(token)
             q == Issue(job[w], t)
             row == q[t]
             f == [row EXCEPT !.st = "revoked"]
  <1>1. /\ job[w].pc = "rotated" /\ Finish(w) /\ UNCHANGED <<account, link, step, spent, seen>>
        /\ token' = [q EXCEPT ![t].st = "revoked"]
    BY DEF AdminHeir, CustomerHeir, Heir
  <1>2. t \in 1..n /\ t \in Nat /\ n \in Nat
    BY <1>1 DEF SessionsType, Rotations
  <1>3. /\ q \in Seq(TokenRow) /\ Len(q) = n + 1
        /\ \A x \in 1..n : q[x] = token[x]
        /\ q[n + 1].a = job[w].a /\ q[n + 1].st = "live" /\ q[n + 1].parent = t
        /\ q[n + 1].epoch = job[w].epoch /\ q[n + 1].late = job[w].late
    BY <1>1, <1>2, IssueIs DEF SessionsType
  <1>4. token' = [q EXCEPT ![t] = f]
    BY <1>1
  <1> HIDE DEF q, n, t
  <1>5. row \in TokenRow /\ row = token[t]
    BY <1>2, <1>3
  <1> HIDE DEF row
  <1>6. /\ f \in TokenRow /\ f.st = "revoked" /\ f.a = row.a /\ f.parent = row.parent
        /\ f.epoch = row.epoch /\ f.late = row.late
    BY <1>5 DEF TokenRow
  <1> HIDE DEF f
  <1>7. /\ token' \in Seq(TokenRow) /\ Len(token') = n + 1 /\ token'[t] = f
        /\ \A x \in 1..(n + 1) : x # t => token'[x] = q[x]
    BY <1>2, <1>3, <1>4, <1>6
  <1>8. Issued(w, t)
    <2>1. \A x \in 1..n : x \in 1..(n + 1)
      BY <1>2
    <2>2. n + 1 \in 1..(n + 1) /\ n + 1 # t
      BY <1>2
    <2>3. \A x \in 1..n :
          /\ token'[x].a = token[x].a /\ token'[x].parent = token[x].parent /\ token'[x].epoch = token[x].epoch
          /\ token'[x].late = token[x].late /\ token'[x].st = IF x = t THEN "revoked" ELSE token[x].st
      BY <1>3, <1>5, <1>6, <1>7, <2>1
    <2>4. token'[n + 1] = q[n + 1]
      BY <1>7, <2>2
    <2> QED
      BY <1>1, <1>3, <1>7, <2>3, <2>4 DEF Issued, n, t
  <1>9. Rotations' /\ Heirs' /\ Epochs' /\ Reached' /\ RevocationReaches'
    BY <1>1, <1>8, IssuedKeeps
  <1>10. /\ job' \in [Workers -> Job]
         /\ \A v \in Workers : job'[v].pc # "idle" => job'[v] = job[v] /\ job'[v].a \in Accounts
         /\ \A v \in Workers : job'[v].k > 0 => job'[v] = job[v]
    BY <1>1, StopIs
  <1>11. SessionsType'
    BY <1>1, <1>7, <1>10 DEF SessionsType
  <1>12. CodesKnown'
    BY <1>1, <1>10, CodesStay
  <1>13. LinksKnown'
    BY <1>1, <1>10, LinksStay
  <1> QED
    BY <1>9, <1>11, <1>12, <1>13

(* Tokens that end: those that are not taken by a rotation.                *)
Dimmed ==
    /\ token' \in Seq(TokenRow) /\ Len(token') = Len(token)
    /\ \A x \in 1..Len(token) :
          /\ token'[x].a = token[x].a /\ token'[x].parent = token[x].parent
          /\ token'[x].epoch = token[x].epoch /\ token'[x].late = token[x].late
          /\ token'[x].st = token[x].st \/ (token'[x].st # "live" /\ ~ Held(x))

(* A logout, a revocation or a deletion ends no token that is being        *)
(* rotated, and none that has ended becomes good again.                    *)
LEMMA DimmedKeeps ==
    ASSUME SessionsInv, Dimmed, \A v \in Workers : job'[v].pc # "idle" => job'[v] = job[v]
    PROVE  /\ Rotations' /\ Heirs' /\ DOMAIN token' = DOMAIN token
           /\ \A x \in DOMAIN token : token'[x].st = "live" => token[x].st = "live"
           /\ seen'.epoch = seen.epoch => Epochs' /\ Reached' /\ RevocationReaches'
  <1> USE DEF SessionsInv
  <1>1. DOMAIN token = 1..Len(token) /\ DOMAIN token' = DOMAIN token
    BY DEF SessionsType, Dimmed
  <1>2. \A x \in DOMAIN token : token'[x].st = "live" => token[x].st = "live"
    BY <1>1 DEF Dimmed
  <1>3. Rotations'
    <2>1. \A v \in Workers : job'[v].pc = "rotated" => job'[v] = job[v] /\ Held(job[v].t)
      BY DEF Held
    <2> QED
      BY <1>1, <2>1 DEF Rotations, Dimmed
  <1>4. Heirs'
    <2>1. \A x \in DOMAIN token : token[x].parent \in Nat /\ token[x].parent <= Len(token)
      <3>1. \A x \in 1..Len(token) : token[x] \in TokenRow
        BY DEF SessionsType
      <3> QED
        BY <1>1, <3>1 DEF TokenRow, Heirs
    <2>2. Len(token) \in Nat /\ \A x \in DOMAIN token : token[x].parent # 0 => token[x].parent \in DOMAIN token
      <3>1. Len(token) \in Nat
        BY DEF SessionsType
      <3> QED
        BY <1>1, <2>1, <3>1
    <2>3. \A x \in DOMAIN token : token'[x].parent = token[x].parent
      BY <1>1 DEF Dimmed
    <2>4. Len(token') = Len(token)
      BY DEF Dimmed
    <2> QED
      BY <1>1, <1>2, <2>1, <2>2, <2>3, <2>4 DEF Heirs
  <1>5. ASSUME seen'.epoch = seen.epoch PROVE Epochs' /\ Reached' /\ RevocationReaches'
    <2>1. \A x \in DOMAIN token : token'[x].a = token[x].a /\ token'[x].epoch = token[x].epoch /\ token'[x].late = token[x].late
      BY <1>1 DEF Dimmed
    <2>2. Epochs'
      BY <1>1, <1>5, <2>1 DEF Epochs, Makes
    <2>3. Reached'
      BY <1>1, <1>2, <2>1 DEF Reached, Makes, Ends
    <2>4. RevocationReaches'
      BY <1>1, <1>2, <1>5, <2>1 DEF RevocationReaches
    <2> QED
      BY <2>2, <2>3, <2>4
  <1> QED
    BY <1>1, <1>2, <1>3, <1>4, <1>5

(* A logout.                                                               *)
LEMMA LogoutKeeps ==
    ASSUME SessionsInv, NEW w \in Workers, CommitLogout(w)
    PROVE  SessionsInv'
  <1> USE DEF SessionsInv
  <1> DEFINE t == job[w].t
             row == token[t]
             f == [row EXCEPT !.st = IF @ = "gone" THEN @ ELSE "revoked"]
  <1>1. /\ ~ Held(t) /\ Finish(w) /\ UNCHANGED <<account, link, step, spent, seen>>
        /\ token' = [token EXCEPT ![t] = f] /\ token \in Seq(TokenRow)
    BY DEF CommitLogout, SessionsType
  <1> HIDE DEF t
  <1>2. ASSUME t \in 1..Len(token)
        PROVE  /\ f \in TokenRow /\ f.a = row.a /\ f.parent = row.parent /\ f.epoch = row.epoch
               /\ f.late = row.late /\ (f.st = row.st \/ f.st # "live")
    <2>1. row \in TokenRow
      BY <1>1, <1>2
    <2> HIDE DEF row
    <2> QED
      BY <2>1 DEF TokenRow
  <1> HIDE DEF f
  <1>3. Dimmed
    <2>1. CASE t \in 1..Len(token)
      <3>1. /\ token' \in Seq(TokenRow) /\ Len(token') = Len(token) /\ token'[t] = f
            /\ \A x \in 1..Len(token) : x # t => token'[x] = token[x]
        BY <1>1, <1>2, <2>1
      <3> QED
        BY <1>1, <1>2, <2>1, <3>1 DEF Dimmed
    <2>2. CASE t \notin 1..Len(token)
      <3>1. token' = token
        BY <1>1, <2>2
      <3> QED
        BY <1>1, <3>1 DEF Dimmed
    <2> QED
      BY <2>1, <2>2
  <1>4. /\ job' \in [Workers -> Job]
        /\ \A v \in Workers : job'[v].pc # "idle" => job'[v] = job[v] /\ job'[v].a \in Accounts
        /\ \A v \in Workers : job'[v].k > 0 => job'[v] = job[v]
    BY <1>1, StopIs
  <1>5. Rotations' /\ Heirs' /\ Epochs' /\ Reached' /\ RevocationReaches'
    BY <1>1, <1>3, <1>4, DimmedKeeps
  <1>6. SessionsType'
    BY <1>1, <1>3, <1>4 DEF SessionsType, Dimmed
  <1>7. CodesKnown'
    BY <1>1, <1>4, CodesStay
  <1>8. LinksKnown'
    BY <1>1, <1>4, LinksStay
  <1> QED
    BY <1>5, <1>6, <1>7, <1>8

-----------------------------------------------------------------------------
(* Passwords, the desk and the clock.                                      *)

(* The links in S are used up, or gone with the account.                   *)
LinksEnd(S, st) == link' = [i \in DOMAIN link |-> IF i \in S THEN [link[i] EXCEPT !.st = st] ELSE link[i]]

(* Rows of links that end are rows, and only their state changes.          *)
LEMMA LinkRows ==
    ASSUME SessionsType, NEW S, NEW st \in {"used", "gone"}, LinksEnd(S, st)
    PROVE  /\ link' \in Seq(LinkRow) /\ Len(link') = Len(link) /\ DOMAIN link' = DOMAIN link
           /\ \A i \in DOMAIN link : link'[i].a = link[i].a /\ link'[i].st = IF i \in S THEN st ELSE link[i].st
  <1> DEFINE row(i) == IF i \in S THEN [link[i] EXCEPT !.st = st] ELSE link[i]
  <1>1. link \in Seq(LinkRow) /\ DOMAIN link = 1..Len(link) /\ Len(link) \in Nat
    BY DEF SessionsType
  <1>2. ASSUME NEW i \in DOMAIN link
        PROVE  row(i) \in LinkRow /\ row(i).a = link[i].a /\ row(i).st = IF i \in S THEN st ELSE link[i].st
    <2>1. link[i] \in LinkRow
      BY <1>1, <1>2
    <2> QED
      BY <2>1 DEF LinkRow
  <1>3. link' = [i \in 1..Len(link) |-> row(i)]
    BY <1>1 DEF LinksEnd
  <1> HIDE DEF row
  <1>4. link' \in Seq(LinkRow) /\ Len(link') = Len(link) /\ DOMAIN link' = DOMAIN link
    BY <1>1, <1>2, <1>3
  <1>5. \A i \in DOMAIN link : link'[i] = row(i)
    BY <1>1, <1>3
  <1> QED
    BY <1>2, <1>4, <1>5

(* The sessions end, and with a link the links of the account are used up. *)
LEMMA RevokeKeeps ==
    ASSUME SessionsInv, NEW w \in Workers, CommitRevoke(w)
    PROVE  SessionsInv'
  <1> USE DEF SessionsInv
  <1> DEFINE a == job[w].a
             k == job[w].k
             T == job[w].targets
             S == {i \in DOMAIN link : link[i].a = a /\ link[i].st = "open"}
             n == Len(token)
             row(x) == IF x \in T /\ token[x].st = "live" THEN [token[x] EXCEPT !.st = "revoked"] ELSE token[x]
             uses == [i \in DOMAIN seen.uses |-> IF i = k THEN seen.uses[i] + 1 ELSE seen.uses[i]]
             epoch == [seen.epoch EXCEPT ![a] = @ + 1]
             g == [seen EXCEPT !.epoch = epoch, !.uses = uses]
  <1>1. /\ job[w].pc = "revoking" /\ \A x \in T : ~ Held(x)
        /\ token' = [x \in DOMAIN token |-> row(x)]
        /\ link' = IF k <= 0 THEN link
                   ELSE [i \in DOMAIN link |-> IF link[i].a = a /\ link[i].st = "open"
                                               THEN [link[i] EXCEPT !.st = "used"] ELSE link[i]]
        /\ Finish(w) /\ UNCHANGED <<account, step, spent>>
    BY DEF CommitRevoke
  <1>2. /\ token \in Seq(TokenRow) /\ n \in Nat /\ DOMAIN token = 1..n
        /\ link \in Seq(LinkRow) /\ Len(link) \in Nat /\ DOMAIN link = 1..Len(link) /\ DOMAIN link \subseteq 1..MaxLinks
        /\ a \in Accounts /\ k \in Int /\ seen \in Seen
    <2>1. job[w] \in Job /\ a \in Accounts
      BY <1>1 DEF SessionsType
    <2>2. k \in Int
      BY <2>1 DEF Job
    <2> QED
      BY <2>1, <2>2, SessionsAssumption DEF SessionsType
  <1>3. /\ job' \in [Workers -> Job]
        /\ \A v \in Workers : job'[v].pc # "idle" => v # w /\ job'[v] = job[v] /\ job'[v].a \in Accounts
        /\ \A v \in Workers : job'[v].k > 0 => v # w /\ job'[v] = job[v]
    BY <1>1, StopIs
  <1>4. /\ epoch \in [Accounts -> Nat] /\ epoch[a] = seen.epoch[a] + 1
        /\ \A b \in Accounts : seen.epoch[b] \in Nat /\ (b # a => epoch[b] = seen.epoch[b])
    BY <1>2 DEF Seen
  <1>5. k > 0 => k \in DOMAIN link /\ a = link[k].a
    BY DEF LinksKnown, Linked
  <1>6. /\ uses \in [1..MaxLinks -> Nat] /\ (k > 0 => uses[k] = seen.uses[k] + 1)
        /\ \A i \in 1..MaxLinks : seen.uses[i] \in Nat /\ (i # k => uses[i] = seen.uses[i])
    <2>1. k > 0 => k \in 1..MaxLinks
      BY <1>2, <1>5
    <2> DEFINE u == seen.uses
               f == [i \in 1..MaxLinks |-> IF i = k THEN u[i] + 1 ELSE u[i]]
    <2>2. u \in [1..MaxLinks -> Nat]
      BY <1>2 DEF Seen
    <2>3. uses = f
      BY <2>2
    <2> HIDE DEF u, uses, k
    <2>4. \A i \in 1..MaxLinks : u[i] \in Nat
      BY <2>2
    <2>5. f \in [1..MaxLinks -> Nat] /\ \A i \in 1..MaxLinks : f[i] = IF i = k THEN u[i] + 1 ELSE u[i]
      BY <2>4
    <2> QED
      BY <2>1, <2>3, <2>4, <2>5 DEF u
  <1>6a. seen' = g
    BY DEF CommitRevoke
  <1>7. link' \in Seq(LinkRow) /\ Len(link') = Len(link) /\ DOMAIN link' = DOMAIN link
        /\ \A i \in DOMAIN link : link'[i].a = link[i].a /\ link'[i].st = IF k > 0 /\ i \in S THEN "used" ELSE link[i].st
    <2>1. CASE k > 0
      <3>1. \A i \in DOMAIN link : i \in S <=> link[i].a = a /\ link[i].st = "open"
        OBVIOUS
      <3>2. link' = [i \in DOMAIN link |-> IF link[i].a = a /\ link[i].st = "open"
                                          THEN [link[i] EXCEPT !.st = "used"] ELSE link[i]]
        BY <1>1, <1>2, <2>1
      <3> HIDE DEF S
      <3>3. LinksEnd(S, "used")
        BY <3>1, <3>2 DEF LinksEnd
      <3> QED
        BY <2>1, <3>3, LinkRows
    <2>2. CASE ~ (k > 0)
      BY <1>1, <1>2, <2>2
    <2> QED
      BY <2>1, <2>2
  <1>8. \A x \in 1..n : /\ row(x) \in TokenRow /\ row(x).a = token[x].a /\ row(x).parent = token[x].parent
                        /\ row(x).epoch = token[x].epoch /\ row(x).late = token[x].late
                        /\ row(x).st = IF x \in T /\ token[x].st = "live" THEN "revoked" ELSE token[x].st
    <2>1. TAKE x \in 1..n
    <2>2. token[x] \in TokenRow
      BY <1>2
    <2> QED
      BY <2>2 DEF TokenRow
  <1> HIDE DEF row
  <1>9. token' \in Seq(TokenRow) /\ Len(token') = n /\ \A x \in 1..n : token'[x] = row(x)
    BY <1>1, <1>2, <1>8
  <1>10. Dimmed
    BY <1>1, <1>8, <1>9 DEF Dimmed
  <1>11. /\ Rotations' /\ Heirs' /\ DOMAIN token' = DOMAIN token
         /\ \A x \in DOMAIN token : token'[x].st = "live" => token[x].st = "live"
    BY <1>3, <1>10, DimmedKeeps
  <1> HIDE DEF a, k, T, S, n, uses, epoch
  <1>12. /\ g \in Seen /\ g.epoch = epoch /\ g.uses = uses /\ g.codes = seen.codes /\ g.twice = seen.twice
         /\ g.torn = seen.torn /\ g.shared = seen.shared
    BY <1>2, <1>4, <1>6 DEF Seen
  <1> HIDE DEF g
  <1>13. SessionsType'
    BY <1>1, <1>3, <1>7, <1>9, <1>12, <1>6a DEF SessionsType
  <1>14. \A b \in Accounts : seen'.epoch[b] \in Nat /\ seen.epoch[b] <= seen'.epoch[b] /\ (b # a => seen'.epoch[b] = seen.epoch[b])
    BY <1>2, <1>4, <1>12, <1>6a
  <1>15. \A x \in 1..n : /\ token'[x].a = token[x].a /\ token'[x].epoch = token[x].epoch /\ token'[x].late = token[x].late
                         /\ token[x].a \in Accounts /\ token[x].epoch \in Nat
    <2>1. \A x \in 1..n : token[x] \in TokenRow
      BY <1>2
    <2> QED
      BY <1>8, <1>9, <2>1 DEF TokenRow
  <1>16. Epochs'
    <2>1. ASSUME NEW v \in Workers, job'[v].pc \in {"login", "register", "rotated"}
          PROVE  /\ job'[v].epoch <= seen'.epoch[job'[v].a]
                 /\ job'[v].epoch < seen'.epoch[job'[v].a] => job'[v].late
      <3>1. job'[v] = job[v] /\ job[v].a \in Accounts /\ job[v].epoch \in Nat
        <4>1. job'[v] = job[v] /\ job[v].a \in Accounts
          BY <1>3, <2>1
        <4>2. job[v] \in Job
          BY DEF SessionsType
        <4> QED
          BY <4>1, <4>2 DEF Job
      <3>2. /\ job[v].epoch <= seen.epoch[job[v].a] /\ (job[v].epoch < seen.epoch[job[v].a] => job[v].late)
        BY <2>1, <3>1 DEF Epochs, Makes
      <3>3. job[v].a = a => job[v].late
        BY <1>1, <2>1, <3>1 DEF Reached, Ends, Makes, a
      <3> QED
        BY <1>4, <1>14, <3>1, <3>2, <3>3
    <2>2. \A x \in 1..n : token'[x].epoch <= seen'.epoch[token'[x].a]
      <3>1. \A x \in 1..n : token[x].epoch <= seen.epoch[token[x].a]
        BY <1>2 DEF Epochs
      <3> QED
        BY <1>4, <1>14, <1>15, <3>1
    <2> QED
      BY <1>2, <1>11, <2>1, <2>2 DEF Epochs, Makes
  <1>17. Reached'
    <2>1. \A v \in Workers : Ends(v)' \/ Makes(v)' => job'[v] = job[v]
      BY <1>3 DEF Ends, Makes
    <2> QED
      BY <1>2, <1>11, <1>15, <2>1 DEF Reached, Ends, Makes
  <1>18. RevocationReaches'
    <2>1. ASSUME NEW x \in 1..n, token'[x].st = "live", token'[x].epoch < seen'.epoch[token'[x].a] PROVE token'[x].late
      <3>1. token[x].st = "live" /\ x \notin T
        BY <1>8, <1>9, <2>1
      <3>2. CASE token[x].a = a
        BY <1>1, <1>2, <1>15, <3>1, <3>2 DEF Reached, Ends, a, T
      <3>3. CASE token[x].a # a
        BY <1>2, <1>14, <1>15, <2>1, <3>1, <3>3 DEF RevocationReaches
      <3> QED
        BY <3>2, <3>3
    <2> QED
      BY <1>2, <1>11, <2>1 DEF RevocationReaches
  <1>19. CodesKnown'
    BY <1>1, <1>3, <1>12, <1>6a, CodesStay
  <1>20. LinksKnown'
    <2>1. \A v \in Workers : job'[v].k > 0 => job[v].k \in DOMAIN link /\ job[v].a = link[job[v].k].a /\ job[v].pc # "idle" /\ v # w /\ job'[v] = job[v]
      BY <1>3 DEF LinksKnown, Linked
    <2>2. \A v \in Workers : job'[v].k > 0 => job'[v].k \in DOMAIN link' /\ job'[v].a = link'[job'[v].k].a /\ job'[v].pc # "idle"
      BY <1>7, <2>1
    <2>3. \A i \in 1..MaxLinks : i \notin DOMAIN link' => seen'.uses[i] = 0
      <3>1. ~ (k > 0) => \A i \in 1..MaxLinks : i # k
        OBVIOUS
      <3>2. \A i \in 1..MaxLinks : i \notin DOMAIN link => i # k
        BY <1>5, <3>1
      <3> QED
        BY <1>6, <1>7, <1>12, <1>6a, <3>2 DEF LinksKnown
    <2>4. ASSUME NEW i \in DOMAIN link, i \notin seen.shared
          PROVE  /\ seen'.uses[i] <= 1
                 /\ link'[i].st = "open" => seen'.uses[i] = 0
                 /\ \A x \in Workers : job'[x].k = i =>
                       /\ seen'.uses[i] = 0
                       /\ \A v \in Workers : job'[v].k > 0 /\ job'[v].a = link'[i].a => v = x
      <3>1. /\ seen.uses[i] <= 1 /\ seen.uses[i] \in Nat /\ i > 0 /\ i \in 1..MaxLinks
            /\ link[i].st = "open" => seen.uses[i] = 0
            /\ \A x \in Workers : job[x].k = i =>
                  /\ seen.uses[i] = 0
                  /\ \A v \in Workers : job[v].k > 0 /\ job[v].a = link[i].a => v = x
        BY <1>2, <1>6, <2>4 DEF LinksKnown, Linked
      <3>2. seen'.uses = uses
        BY <1>12, <1>6a
      <3>3. CASE k = i
        <4>1. seen.uses[i] = 0 /\ seen'.uses[i] = 1
          BY <1>6, <3>1, <3>2, <3>3 DEF k
        <4>2. link'[i].st # "open"
          BY <1>5, <1>7, <3>1, <3>3 DEF S
        <4>3. \A x \in Workers : job'[x].k # i
          <5>1. SUFFICES ASSUME NEW x \in Workers, job'[x].k = i PROVE FALSE
            OBVIOUS
          <5>2. x # w /\ job[x].k = i /\ job[x].a = link[i].a
            BY <2>1, <3>1, <5>1
          <5> QED
            BY <3>1, <3>3, <5>2 DEF k
        <4> QED
          BY <4>1, <4>2, <4>3
      <3>4. CASE k # i
        <4>1. seen'.uses[i] = seen.uses[i]
          BY <1>6, <3>1, <3>2, <3>4
        <4>2. link'[i].a = link[i].a /\ (link'[i].st = "open" => link[i].st = "open")
          BY <1>7
        <4> QED
          BY <2>1, <3>1, <4>1, <4>2
      <3> QED
        BY <3>3, <3>4
    <2>5. seen'.shared = seen.shared /\ seen.shared \subseteq DOMAIN link
      BY <1>12, <1>6a DEF LinksKnown
    <2> QED
      BY <1>7, <2>2, <2>3, <2>4, <2>5 DEF LinksKnown, Linked
  <1> QED
    BY <1>11, <1>13, <1>16, <1>17, <1>18, <1>19, <1>20

(* An account is deleted, and its tokens and links with it.                *)
LEMMA RemoveKeeps ==
    ASSUME SessionsInv, NEW a \in Accounts, Remove(a)
    PROVE  SessionsInv'
  <1> USE DEF SessionsInv
  <1> DEFINE S == {k \in DOMAIN link : link[k].a = a}
             n == Len(token)
             row(x) == IF token[x].a = a THEN [token[x] EXCEPT !.st = "gone"] ELSE token[x]
  <1>1. /\ \A t \in LiveOf(a) : ~ Held(t)
        /\ account' = [account EXCEPT ![a] = Stranger]
        /\ token' = [t \in DOMAIN token |-> row(t)]
        /\ UNCHANGED <<step, job, seen>>
    BY DEF Remove
  <1>2. spent' \in [calls : Nat, desk : Nat]
    BY DEF Remove, Desk, SessionsType
  <1>3. /\ link' \in Seq(LinkRow) /\ Len(link') = Len(link) /\ DOMAIN link' = DOMAIN link
        /\ \A i \in DOMAIN link : link'[i].a = link[i].a /\ link'[i].st = IF i \in S THEN "gone" ELSE link[i].st
    <2>1. \A i \in DOMAIN link : i \in S <=> link[i].a = a
      OBVIOUS
    <2>2. link' = [k \in DOMAIN link |-> IF link[k].a = a THEN [link[k] EXCEPT !.st = "gone"] ELSE link[k]]
      BY DEF Remove
    <2> HIDE DEF S
    <2>3. LinksEnd(S, "gone")
      BY <2>1, <2>2 DEF LinksEnd
    <2> QED
      BY <2>3, LinkRows
  <1>4. token \in Seq(TokenRow) /\ n \in Nat /\ DOMAIN token = 1..n
    BY DEF SessionsType
  <1>5. \A x \in 1..n : /\ row(x) \in TokenRow /\ row(x).a = token[x].a /\ row(x).parent = token[x].parent
                        /\ row(x).epoch = token[x].epoch /\ row(x).late = token[x].late
                        /\ row(x).st = IF token[x].a = a THEN "gone" ELSE token[x].st
    <2>1. TAKE x \in 1..n
    <2>2. token[x] \in TokenRow
      BY <1>4
    <2> QED
      BY <2>2 DEF TokenRow
  <1> HIDE DEF row
  <1>6. token' \in Seq(TokenRow) /\ Len(token') = n /\ \A x \in 1..n : token'[x] = row(x)
    BY <1>1, <1>4, <1>5
  <1>7. Dimmed
    <2>1. \A x \in 1..n : token[x].a = a => ~ Held(x)
      <3>1. SUFFICES ASSUME NEW x \in 1..n, token[x].a = a, Held(x) PROVE FALSE
        OBVIOUS
      <3>2. token[x].st = "live"
        BY <3>1 DEF Held, Rotations
      <3> QED
        BY <1>1, <1>4, <3>1, <3>2 DEF LiveOf
    <2> QED
      BY <1>5, <1>6, <2>1 DEF Dimmed
  <1>8. Rotations' /\ Heirs' /\ Epochs' /\ Reached' /\ RevocationReaches'
    BY <1>1, <1>7, DimmedKeeps
  <1>9. /\ account' \in [Accounts -> Row] /\ account'[a].live = FALSE
        /\ \A b \in Accounts : b # a => account'[b] = account[b]
    <2>1. Stranger \in Row /\ Stranger.live = FALSE /\ account \in [Accounts -> Row]
      BY IdleIs DEF SessionsType
    <2> QED
      BY <1>1, <2>1
  <1>10. SessionsType'
    BY <1>1, <1>2, <1>3, <1>6, <1>9 DEF SessionsType
  <1>11. CodesKnown'
    BY <1>1, <1>9 DEF CodesKnown
  <1>12. LinksKnown'
    <2>1. DOMAIN link \subseteq 1..MaxLinks /\ \A k \in 1..MaxLinks : k > 0
      BY SessionsAssumption DEF SessionsType
    <2>2. \A i \in DOMAIN link : link'[i].a = link[i].a /\ (link'[i].st = "open" => link[i].st = "open")
      BY <1>3
    <2> HIDE DEF S
    <2> QED
      BY <1>1, <1>3, <2>1, <2>2 DEF LinksKnown, Linked
  <1> QED
    BY <1>8, <1>10, <1>11, <1>12

(* An administrator is switched on or off.                                 *)
LEMMA SetActiveKeeps ==
    ASSUME SessionsInv, NEW a \in Accounts, NEW on \in BOOLEAN, SetActive(a, on)
    PROVE  SessionsInv'
  <1> USE DEF SessionsInv
  <1> DEFINE row == account[a]
             f == [row EXCEPT !.active = on]
  <1>1. account' = [account EXCEPT ![a] = f] /\ UNCHANGED <<token, link, step, job, seen>>
    BY DEF SetActive
  <1>2. spent' \in [calls : Nat, desk : Nat]
    BY DEF SetActive, Desk, SessionsType
  <1>3. row \in Row /\ account \in [Accounts -> Row]
    BY DEF SessionsType
  <1> HIDE DEF row
  <1>4. f \in Row /\ f.live = row.live /\ f.last = row.last
    BY <1>3 DEF Row
  <1> HIDE DEF f
  <1>5. /\ account' \in [Accounts -> Row] /\ account'[a] = f
        /\ \A b \in Accounts : b # a => account'[b] = account[b]
    BY <1>1, <1>3, <1>4
  <1>6. SessionsType'
    BY <1>1, <1>2, <1>5 DEF SessionsType
  <1>7. Rotations' /\ Heirs' /\ Epochs' /\ Reached' /\ RevocationReaches' /\ LinksKnown'
    BY <1>1 DEF Rotations, Heirs, Epochs, Makes, Reached, Ends, RevocationReaches, LinksKnown, Linked
  <1>8. CodesKnown'
    <2>1. \A b \in Accounts : account'[b].live = account[b].live /\ account'[b].last = account[b].last
      BY <1>4, <1>5 DEF row
    <2> QED
      BY <1>1, <2>1 DEF CodesKnown
  <1> QED
    BY <1>6, <1>7, <1>8

(* A password link is mailed.                                              *)
LEMMA LinkKeeps ==
    ASSUME SessionsInv, NEW a \in Accounts, Link(a)
    PROVE  SessionsInv'
  <1> USE DEF SessionsInv
  <1> DEFINE row == [a |-> a, st |-> "open"]
             n == Len(link)
  <1>1. link' = Append(link, row) /\ n < MaxLinks /\ UNCHANGED <<account, token, step, job, spent, seen>>
    BY DEF Link
  <1>2. row \in LinkRow
    BY DEF LinkRow
  <1>3. link \in Seq(LinkRow) /\ n \in Nat /\ DOMAIN link = 1..n /\ MaxLinks \in Nat
    BY SessionsAssumption DEF SessionsType
  <1> HIDE DEF row
  <1>4. /\ link' \in Seq(LinkRow) /\ Len(link') = n + 1 /\ DOMAIN link' = 1..(n + 1)
        /\ \A i \in 1..n : link'[i] = link[i]
    BY <1>1, <1>2, <1>3
  <1>5. SessionsType'
    BY <1>1, <1>3, <1>4 DEF SessionsType
  <1>6. Rotations' /\ Heirs' /\ Epochs' /\ Reached' /\ RevocationReaches' /\ CodesKnown'
    BY <1>1 DEF Rotations, Heirs, Epochs, Makes, Reached, Ends, RevocationReaches, CodesKnown
  <1>7. LinksKnown'
    <2>1. \A w \in Workers : job[w].k > 0 => /\ job[w].k \in 1..n /\ job[w].a = link[job[w].k].a /\ job[w].pc # "idle"
      BY <1>3 DEF LinksKnown, Linked
    <2>2. \A i \in 1..MaxLinks : i \notin 1..n => seen.uses[i] = 0
      BY <1>3 DEF LinksKnown
    <2>3. n + 1 \in 1..MaxLinks /\ n + 1 \notin 1..n /\ \A i \in 1..(n + 1) : i > 0 /\ (i \in 1..n \/ i = n + 1)
      BY <1>1, <1>3
    <2>4. \A w \in Workers : job[w].k # n + 1
      BY <2>1, <2>3
    <2>5. \A i \in 1..n : i \notin seen.shared =>
             /\ seen.uses[i] <= 1
             /\ link[i].st = "open" => seen.uses[i] = 0
             /\ \A x \in Workers : job[x].k = i =>
                   /\ seen.uses[i] = 0
                   /\ \A v \in Workers : job[v].k > 0 /\ job[v].a = link[i].a => v = x
      BY <1>3 DEF LinksKnown, Linked
    <2>6. \A i \in 1..(n + 1) : i \notin seen.shared =>
             /\ seen.uses[i] <= 1
             /\ link'[i].st = "open" => seen.uses[i] = 0
             /\ \A x \in Workers : job[x].k = i =>
                   /\ seen.uses[i] = 0
                   /\ \A v \in Workers : job[v].k > 0 /\ job[v].a = link'[i].a => v = x
      <3>1. TAKE i \in 1..(n + 1)
      <3>2. CASE i \in 1..n
        BY <1>4, <2>5, <3>2
      <3>3. CASE i = n + 1
        BY <2>2, <2>3, <2>4, <3>3
      <3> QED
        BY <2>3, <3>2, <3>3
    <2>7. \A w \in Workers : job[w].k > 0 => /\ job[w].k \in 1..(n + 1) /\ job[w].a = link'[job[w].k].a /\ job[w].pc # "idle"
      BY <1>3, <1>4, <2>1
    <2>8. \A i \in 1..MaxLinks : i \notin 1..(n + 1) => seen.uses[i] = 0
      BY <1>3, <2>2
    <2>9. seen.shared \subseteq 1..(n + 1)
      BY <1>3 DEF LinksKnown
    <2> QED
      BY <1>1, <1>4, <2>6, <2>7, <2>8, <2>9 DEF LinksKnown, Linked
  <1> QED
    BY <1>5, <1>6, <1>7

(* The clock of the codes.                                                 *)
LEMMA TickKeeps ==
    ASSUME SessionsInv, Tick
    PROVE  SessionsInv'
  <1> USE DEF SessionsInv, Tick
  <1>1. SessionsType'
    BY DEF SessionsType
  <1>2. Rotations' /\ Heirs' /\ Epochs' /\ Reached' /\ RevocationReaches' /\ LinksKnown' /\ CodesKnown'
    BY DEF Rotations, Heirs, Epochs, Makes, Reached, Ends, RevocationReaches, LinksKnown, Linked, CodesKnown
  <1> QED
    BY <1>1, <1>2

-----------------------------------------------------------------------------
(* Logins.                                                                 *)

(* A customer becomes a member, and is logged in next.                     *)
LEMMA RegisterKeeps ==
    ASSUME SessionsInv, NEW w \in Workers, CommitRegister(w)
    PROVE  SessionsInv'
  <1> USE DEF SessionsInv
  <1> DEFINE i == job[w]
             a == i.a
             row == [Admin EXCEPT !.secret = 0]
             j == [i EXCEPT !.pc = "login"]
  <1>1. /\ i.pc = "register" /\ UNCHANGED <<token, link, step, spent, seen>>
        /\ \/ account' = [account EXCEPT ![a] = row] /\ job' = [job EXCEPT ![w] = j]
           \/ UNCHANGED account /\ Finish(w)
    BY DEF CommitRegister
  <1>2. CASE UNCHANGED account /\ Finish(w)
    BY <1>1, <1>2, StopKeeps
  <1>3. CASE account' = [account EXCEPT ![a] = row] /\ job' = [job EXCEPT ![w] = j]
    <2>1. i \in Job /\ a \in Accounts /\ account \in [Accounts -> Row] /\ job \in [Workers -> Job]
      BY <1>1 DEF SessionsType
    <2>2. row \in Row
      BY DEF Admin, Row
    <2>3. a \in Customers /\ i.code = 0
      BY <1>1 DEF CodesKnown
    <2>4. i.pc = "register"
      BY <1>1
    <2> HIDE DEF i, row
    <2>5. /\ j \in Job /\ j.pc = "login" /\ j.a = a /\ j.t = i.t /\ j.k = i.k /\ j.code = i.code /\ j.from = i.from
          /\ j.targets = i.targets /\ j.epoch = i.epoch /\ j.late = i.late
      BY <2>1 DEF Job, Pcs
    <2> HIDE DEF j
    <2>6. /\ job' \in [Workers -> Job] /\ job'[w] = j /\ \A v \in Workers \ {w} : job'[v] = job[v]
      BY <1>3, <2>1, <2>5
    <2>7. /\ account' \in [Accounts -> Row] /\ \A b \in Accounts \ Customers : account'[b] = account[b]
      BY <1>3, <2>1, <2>2, <2>3
    <2>8. \A v \in Workers : /\ job'[v].a = job[v].a /\ job'[v].k = job[v].k /\ job'[v].t = job[v].t
                             /\ job'[v].epoch = job[v].epoch /\ job'[v].late = job[v].late
                             /\ job'[v].targets = job[v].targets /\ job'[v].code = job[v].code
                             /\ job'[v].from = job[v].from /\ (v # w => job'[v].pc = job[v].pc)
      BY <2>5, <2>6 DEF i
    <2>9. job'[w].pc = "login" /\ job[w].pc = "register" /\ job[w].a \in Customers /\ job[w].code = 0
      BY <2>3, <2>4, <2>5, <2>6 DEF i
    <2>10. SessionsType'
      BY <1>1, <2>1, <2>5, <2>6, <2>7 DEF SessionsType
    <2>11. Rotations'
      BY <1>1, <2>8, <2>9 DEF Rotations
    <2>12. Heirs' /\ RevocationReaches'
      BY <1>1 DEF Heirs, RevocationReaches
    <2>13. Epochs'
      BY <1>1, <2>8, <2>9 DEF Epochs, Makes
    <2>14. Reached'
      BY <1>1, <2>8, <2>9 DEF Reached, Makes, Ends
    <2>15. CodesKnown'
      <3>1. \A b \in Accounts : b \in Customers \/ account'[b] = account[b]
        BY <2>7
      <3>2. \A b \in Accounts : account'[b].live /\ b \notin seen.torn => \A c \in seen.codes[b] : c <= account'[b].last
        BY <3>1 DEF CodesKnown
      <3> QED
        BY <1>1, <2>8, <2>9, <3>2 DEF CodesKnown
    <2>16. LinksKnown'
      <3>1. DOMAIN link \subseteq 1..MaxLinks /\ \A k \in 1..MaxLinks : k > 0
        BY SessionsAssumption DEF SessionsType
      <3> QED
        BY <1>1, <2>8, <2>9, <3>1 DEF LinksKnown, Linked
    <2> QED
      BY <2>10, <2>11, <2>12, <2>13, <2>14, <2>15, <2>16
  <1> QED
    BY <1>1, <1>2, <1>3

(* The columns that a call has changed are written, the others are what    *)
(* another call has made of them.                                          *)
LEMMA FlushIs ==
    ASSUME SessionsType, NEW a \in Accounts, NEW from, NEW secret \in Nat, NEW last \in Nat,
           Flush(a, from, secret, last)
    PROVE  /\ account' \in [Accounts -> Row]
           /\ \A b \in Accounts : b # a => account'[b] = account[b]
           /\ account'[a].live = account[a].live
           /\ account'[a].last = IF last # from.last THEN last ELSE account[a].last
  <1> DEFINE row == account[a]
             s == IF secret # from.secret THEN secret ELSE row.secret
             l == IF last # from.last THEN last ELSE row.last
             f == [row EXCEPT !.secret = s, !.last = l]
  <1>1. account \in [Accounts -> Row] /\ row \in Row
    BY DEF SessionsType
  <1>2. s \in Nat /\ l \in Nat
    BY <1>1 DEF Row
  <1>3. account' = [account EXCEPT ![a] = f]
    BY <1>1 DEF Flush, Row
  <1> HIDE DEF row, s, l
  <1>4. f \in Row /\ f.live = row.live /\ f.last = l
    BY <1>1, <1>2 DEF Row
  <1> HIDE DEF f
  <1>5. /\ account' \in [Accounts -> Row] /\ account'[a] = f
        /\ \A b \in Accounts : b # a => account'[b] = account[b]
    BY <1>1, <1>3, <1>4
  <1> QED
    BY <1>4, <1>5 DEF row, l

(* A login whose code is accepted, and whose row is still there.           *)
LEMMA AcceptIs ==
    ASSUME SessionsInv, NEW w \in Workers, job[w].pc = "login", job[w].code > 0, account[job[w].a].live,
           Flush(job[w].a, job[w].from, job[w].from.secret, job[w].code),
           Accept(job[w].a, job[w].code, job[w].from),
           \A v \in Workers : job'[v].pc # "idle" => job'[v] = job[v]
    PROVE  /\ CodesKnown' /\ account' \in [Accounts -> Row] /\ seen' \in Seen
           /\ seen'.epoch = seen.epoch /\ seen'.uses = seen.uses /\ seen'.shared = seen.shared
  <1> USE DEF SessionsInv
  <1> DEFINE a == job[w].a
             c == job[w].code
             from == job[w].from
             codes == [seen.codes EXCEPT ![a] = @ \cup {c}]
             twice == IF c \in seen.codes[a] THEN seen.twice \cup {a} ELSE seen.twice
             torn == IF account[a] # from THEN seen.torn \cup {a} ELSE seen.torn
             g == [seen EXCEPT !.codes = codes, !.twice = twice, !.torn = torn]
  <1>1. a \in Accounts /\ a \in Admins /\ c \in Nat /\ c > 0 /\ from \in Row /\ from.last \in Nat /\ from.last < c
    <2>1. job[w] \in Job
      BY DEF SessionsType
    <2>2. c \in Nat /\ from \in Row
      BY <2>1 DEF Job
    <2> QED
      BY <2>2 DEF CodesKnown, Row, Accounts
  <1>2. a \notin Customers
    BY <1>1, SessionsAssumption
  <1>3. seen \in Seen /\ account \in [Accounts -> Row]
    BY DEF SessionsType
  <1>4. /\ account' \in [Accounts -> Row] /\ \A b \in Accounts : b # a => account'[b] = account[b]
        /\ account'[a].live = account[a].live /\ account'[a].last = c
    <2>1. from.secret \in Nat
      BY <1>1 DEF Row
    <2>2. c # from.last
      BY <1>1
    <2>3. Flush(a, from, from.secret, c) /\ SessionsType
      OBVIOUS
    <2> HIDE DEF a, c, from
    <2> QED
      BY <1>1, <2>1, <2>2, <2>3, FlushIs
  <1>5. seen' = g
    BY DEF Accept
  <1>6. /\ seen.codes \in [Accounts -> SUBSET Nat] /\ seen.twice \subseteq Accounts /\ seen.torn \subseteq Accounts
    BY <1>3 DEF Seen
  <1> HIDE DEF a, c, from
  <1>7. /\ codes \in [Accounts -> SUBSET Nat] /\ codes[a] = seen.codes[a] \cup {c}
        /\ \A b \in Accounts : b # a => codes[b] = seen.codes[b]
    BY <1>1, <1>6
  <1>8. twice \in SUBSET Accounts /\ torn \in SUBSET Accounts
    BY <1>1, <1>6
  <1> HIDE DEF codes, twice, torn
  <1>9. /\ g \in Seen /\ g.codes = codes /\ g.twice = twice /\ g.torn = torn
        /\ g.epoch = seen.epoch /\ g.uses = seen.uses /\ g.shared = seen.shared
    BY <1>3, <1>7, <1>8 DEF Seen
  <1> HIDE DEF g
  <1>10. a \notin torn => a \notin seen.torn /\ account[a] = from
    BY DEF torn
  <1>11. a \notin torn => \A d \in seen.codes[a] : d \in Nat /\ d <= from.last
    BY <1>1, <1>6, <1>10 DEF CodesKnown, a
  <1>12. CodesKnown'
    <2>1. \A b \in Accounts : account'[b].live /\ b \notin torn => \A d \in codes[b] : d <= account'[b].last
      <3>1. SUFFICES ASSUME NEW b \in Accounts, account'[b].live, b \notin torn, NEW d \in codes[b]
                     PROVE  d <= account'[b].last
        OBVIOUS
      <3>2. CASE b = a
        BY <1>1, <1>4, <1>7, <1>11, <3>1, <3>2
      <3>3. CASE b # a
        BY <1>4, <1>7, <3>1, <3>3 DEF CodesKnown, torn
      <3> QED
        BY <3>2, <3>3
    <2>2. \A b \in Customers : codes[b] = {}
      BY <1>2, <1>7 DEF CodesKnown, Accounts
    <2>3. twice \subseteq torn
      <3>1. c \in seen.codes[a] => a \in torn
        BY <1>1, <1>11
      <3>2. seen.twice \subseteq seen.torn /\ seen.torn \subseteq torn
        BY DEF CodesKnown, torn
      <3> QED
        BY <3>1, <3>2 DEF twice
    <2>4. seen'.codes = codes /\ seen'.twice = twice /\ seen'.torn = torn
      BY <1>5, <1>9
    <2> QED
      BY <2>1, <2>2, <2>3, <2>4 DEF CodesKnown
  <1> QED
    BY <1>4, <1>5, <1>9, <1>12

(* A session is made.                                                      *)
LEMMA LoginKeeps ==
    ASSUME SessionsInv, NEW w \in Workers, CommitLogin(w)
    PROVE  SessionsInv'
  <1> USE DEF SessionsInv
  <1>1. /\ job[w].pc = "login" /\ Finish(w) /\ UNCHANGED <<link, step, spent>>
    BY DEF CommitLogin
  <1>2. CASE ~ account[job[w].a].live
    <2>1. UNCHANGED <<account, token, seen>>
      BY <1>2 DEF CommitLogin
    <2> QED
      BY <1>1, <2>1, StopKeeps
  <1>3. CASE account[job[w].a].live
    <2>1. /\ job' \in [Workers -> Job]
          /\ \A v \in Workers : job'[v].pc # "idle" => job'[v] = job[v] /\ job'[v].a \in Accounts
          /\ \A v \in Workers : job'[v].k > 0 => job'[v] = job[v]
      BY <1>1, StopIs
    <2>2. token' = Issue(job[w], 0)
      BY <1>3 DEF CommitLogin
    <2>3. Issued(w, 0)
      <3> DEFINE q == Issue(job[w], 0)
                 n == Len(token)
      <3>1. /\ q \in Seq(TokenRow) /\ Len(q) = n + 1
            /\ \A x \in 1..n : q[x] = token[x]
            /\ q[n + 1].a = job[w].a /\ q[n + 1].st = "live" /\ q[n + 1].parent = 0
            /\ q[n + 1].epoch = job[w].epoch /\ q[n + 1].late = job[w].late
        BY <1>1, IssueIs
      <3> HIDE DEF q
      <3>2. \A x \in 1..n : x # 0 /\ token'[x] = token[x]
        <4>1. n \in Nat /\ token' = q
          BY <2>2 DEF SessionsType, q
        <4>2. \A x \in 1..n : x # 0
          BY <4>1
        <4> QED
          BY <3>1, <4>1, <4>2
      <3>3. token' = q
        BY <2>2 DEF q
      <3> QED
        BY <1>1, <3>1, <3>2, <3>3 DEF Issued
    <2>4. token' \in Seq(TokenRow)
      BY <2>3 DEF Issued
    <2>5. /\ CodesKnown' /\ account' \in [Accounts -> Row] /\ seen' \in Seen
          /\ seen'.epoch = seen.epoch /\ seen'.uses = seen.uses /\ seen'.shared = seen.shared
      <3>1. CASE job[w].code = 0
        <4>1. UNCHANGED <<account, seen>>
          BY <1>3, <3>1 DEF CommitLogin
        <4> QED
          BY <2>1, <4>1, CodesStay DEF SessionsType
      <3>2. CASE job[w].code # 0
        <4>1. Flush(job[w].a, job[w].from, job[w].from.secret, job[w].code) /\ Accept(job[w].a, job[w].code, job[w].from)
          BY <1>3, <3>2 DEF CommitLogin
        <4>2. job[w].code > 0
          <5>1. job[w] \in Job
            BY DEF SessionsType
          <5>2. job[w].code \in Nat
            BY <5>1 DEF Job
          <5> QED
            BY <3>2, <5>2
        <4> QED
          BY <1>1, <1>3, <2>1, <4>1, <4>2, AcceptIs
      <3> QED
        BY <3>1, <3>2
    <2>6. Rotations' /\ Heirs' /\ Epochs' /\ Reached' /\ RevocationReaches'
      BY <1>1, <2>3, <2>5, IssuedKeeps
    <2>7. SessionsType'
      BY <1>1, <2>1, <2>4, <2>5 DEF SessionsType
    <2>8. LinksKnown'
      BY <1>1, <2>1, <2>5, LinksStay
    <2> QED
      BY <2>5, <2>6, <2>7, <2>8
  <1> QED
    BY <1>2, <1>3

(* One-time codes are switched on, or off.                                 *)
LEMMA CommitCodesKeeps ==
    ASSUME SessionsInv, NEW w \in Workers, CommitCodes(w)
    PROVE  SessionsInv'
  <1> USE DEF SessionsInv
  <1> DEFINE a == job[w].a
             c == job[w].code
             from == job[w].from
             secret == IF c = 0 THEN 0 ELSE spent.calls
             codes == [seen.codes EXCEPT ![a] = {c} \ {0}]
             twice == seen.twice \ {a}
             torn == IF account[a] # from THEN seen.torn \cup {a} ELSE seen.torn \ {a}
             g == [seen EXCEPT !.codes = codes, !.twice = twice, !.torn = torn]
  <1>1. /\ job[w].pc \in {"setup", "disable"} /\ account[a].live /\ Flush(a, from, secret, c)
        /\ Finish(w) /\ UNCHANGED <<token, link, step, spent>>
    BY DEF CommitCodes
  <1>2. a \in Accounts /\ a \in Admins /\ c \in Nat /\ from \in Row /\ from.last \in Nat /\ secret \in Nat
    <2>1. job[w] \in Job /\ spent.calls \in Nat
      BY DEF SessionsType
    <2>2. c \in Nat /\ from \in Row
      BY <2>1 DEF Job
    <2> QED
      BY <1>1, <2>1, <2>2 DEF CodesKnown, Row, Accounts
  <1>3. a \notin Customers
    BY <1>2, SessionsAssumption
  <1>4. seen \in Seen /\ SessionsType /\ token \in Seq(TokenRow)
    BY DEF SessionsType
  <1>5. seen' = g
    BY DEF CommitCodes
  <1>6. /\ job' \in [Workers -> Job]
        /\ \A v \in Workers : job'[v].pc # "idle" => job'[v] = job[v] /\ job'[v].a \in Accounts
        /\ \A v \in Workers : job'[v].k > 0 => job'[v] = job[v]
    BY <1>1, StopIs
  <1> HIDE DEF a, c, from, secret
  <1>7. /\ account' \in [Accounts -> Row] /\ \A b \in Accounts : b # a => account'[b] = account[b]
        /\ account'[a].live = account[a].live /\ account'[a].last = IF c # from.last THEN c ELSE account[a].last
    BY <1>1, <1>2, <1>4, FlushIs
  <1>8. /\ seen.codes \in [Accounts -> SUBSET Nat] /\ seen.twice \subseteq Accounts /\ seen.torn \subseteq Accounts
    BY <1>4 DEF Seen
  <1>9. /\ codes \in [Accounts -> SUBSET Nat] /\ codes[a] \subseteq {c}
        /\ \A b \in Accounts : b # a => codes[b] = seen.codes[b]
    BY <1>2, <1>8
  <1>10. twice \in SUBSET Accounts /\ torn \in SUBSET Accounts
    BY <1>2, <1>8
  <1>11. a \notin torn => account[a] = from
    OBVIOUS
  <1>12. \A b \in Accounts : b # a => (b \in torn <=> b \in seen.torn)
    OBVIOUS
  <1>13. twice \subseteq torn
    BY DEF CodesKnown
  <1> HIDE DEF codes, twice, torn
  <1>14. /\ g \in Seen /\ g.codes = codes /\ g.twice = twice /\ g.torn = torn
         /\ g.epoch = seen.epoch /\ g.uses = seen.uses /\ g.shared = seen.shared
    BY <1>4, <1>9, <1>10 DEF Seen
  <1> HIDE DEF g
  <1>15. CodesKnown'
    <2>1. \A b \in Accounts : account'[b].live /\ b \notin torn => \A d \in codes[b] : d <= account'[b].last
      <3>1. SUFFICES ASSUME NEW b \in Accounts, account'[b].live, b \notin torn, NEW d \in codes[b]
                     PROVE  d <= account'[b].last
        OBVIOUS
      <3>2. CASE b = a
        <4>1. d = c /\ account'[a].last = c
          BY <1>7, <1>9, <1>11, <3>1, <3>2
        <4> QED
          BY <1>2, <3>2, <4>1
      <3>3. CASE b # a
        BY <1>7, <1>9, <1>12, <3>1, <3>3 DEF CodesKnown
      <3> QED
        BY <3>2, <3>3
    <2>2. \A b \in Customers : codes[b] = {}
      BY <1>3, <1>9 DEF CodesKnown, Accounts
    <2>3. seen'.codes = codes /\ seen'.twice = twice /\ seen'.torn = torn
      BY <1>5, <1>14
    <2> QED
      BY <1>6, <1>13, <2>1, <2>2, <2>3 DEF CodesKnown
  <1>16. Dimmed
    BY <1>1, <1>4 DEF Dimmed
  <1>17. Rotations' /\ Heirs' /\ Epochs' /\ Reached' /\ RevocationReaches'
    BY <1>5, <1>6, <1>14, <1>16, DimmedKeeps
  <1>18. SessionsType'
    BY <1>1, <1>5, <1>6, <1>7, <1>14 DEF SessionsType
  <1>19. LinksKnown'
    BY <1>1, <1>4, <1>5, <1>6, <1>14, LinksStay
  <1> QED
    BY <1>15, <1>17, <1>18, <1>19

-----------------------------------------------------------------------------
(* The invariant.                                                          *)

(* The invariant holds before the first call.                              *)
LEMMA InitInv == Init => SessionsInv
  <1> SUFFICES ASSUME Init PROVE SessionsInv
    OBVIOUS
  <1>1. Idle \in Job /\ Idle.pc = "idle" /\ Idle.k = 0 /\ Stranger \in Row /\ Admin \in Row
    BY IdleIs
  <1>2. account \in [Accounts -> Row]
    <2>1. \A a \in Accounts : (IF a \in Admins THEN Admin ELSE Stranger) \in Row
      BY <1>1
    <2> QED
      BY <2>1 DEF Init
  <1>3. job \in [Workers -> Job] /\ \A w \in Workers : job[w].pc = "idle" /\ job[w].k = 0
    BY <1>1 DEF Init
  <1>4. /\ seen \in Seen /\ seen.twice = {} /\ seen.torn = {} /\ seen.shared = {}
        /\ \A a \in Accounts : seen.codes[a] = {}
        /\ \A k \in 1..MaxLinks : seen.uses[k] = 0
    <2>1. seen = Observed
      BY DEF Init
    <2> QED
      BY <2>1 DEF Observed, Seen
  <1>5. /\ token = <<>> /\ link = <<>> /\ step = 1 /\ spent \in [calls : Nat, desk : Nat] /\ MaxLinks \in Nat
    BY SessionsAssumption DEF Init
  <1>6. DOMAIN token = {} /\ DOMAIN link = {} /\ Len(link) = 0 /\ token \in Seq(TokenRow) /\ link \in Seq(LinkRow)
    BY <1>5
  <1>7. SessionsType
    BY <1>2, <1>3, <1>4, <1>5, <1>6 DEF SessionsType
  <1>8. Rotations /\ Heirs /\ Epochs /\ Reached /\ RevocationReaches
    BY <1>3, <1>6 DEF Rotations, Heirs, Epochs, Makes, Reached, Ends, RevocationReaches
  <1>9. CodesKnown
    <2>1. \A a \in Customers : a \in Accounts
      BY DEF Accounts
    <2> QED
      BY <1>3, <1>4, <2>1 DEF CodesKnown
  <1>10. LinksKnown
    BY <1>3, <1>4, <1>6 DEF LinksKnown, Linked
  <1> QED
    BY <1>7, <1>8, <1>9, <1>10 DEF SessionsInv

(* Every step keeps the invariant.                                         *)
LEMMA StepInv == SessionsInv /\ [Next]_vars => SessionsInv'
  <1> SUFFICES ASSUME SessionsInv, [Next]_vars PROVE SessionsInv'
    OBVIOUS
  <1>1. SessionsType
    BY DEF SessionsInv
  <1>2. ASSUME NEW w \in Workers, \E j : Begun(w, j) PROVE SessionsInv'
    BY <1>2, BeginKeeps
  <1>3. ASSUME NEW w \in Workers, NEW a \in Accounts,
               CustomerLogin(w, a) \/ Register(w, a) \/ ChangePassword(w, a)
        PROVE  SessionsInv'
    BY <1>1, <1>2, <1>3, PlainBegins
  <1>4. ASSUME NEW w \in Workers, NEW a \in Accounts, NEW c \in 0..(MaxStep + 1),
               AdminLogin(w, a, c) \/ SetupCodes(w, a, c) \/ DisableCodes(w, a, c)
        PROVE  SessionsInv'
    <2>1. c \in Nat
      BY SessionsAssumption
    <2> QED
      BY <1>1, <1>2, <1>4, <2>1, AdminLoginBegins, CodesBegins
  <1>5. ASSUME NEW w \in Workers, NEW t \in DOMAIN token, Rotate(w, t) \/ Replay(w, t) \/ Logout(w, t)
        PROVE  SessionsInv'
    BY <1>1, <1>2, <1>5, TokenBegins, ReplayKeeps
  <1>6. ASSUME NEW w \in Workers, NEW k \in DOMAIN link, AdminReset(w, k) \/ CustomerReset(w, k)
        PROVE  SessionsInv'
    <2>1. Reset(w, k)
      BY <1>6 DEF AdminReset, CustomerReset
    <2> QED
      BY <1>1, <1>2, <2>1, ResetBegins
  <1>7. ASSUME NEW w \in Workers,
               \/ CommitRegister(w) \/ CommitLogin(w) \/ CommitCodes(w)
               \/ AdminHeir(w) \/ CustomerHeir(w) \/ CommitLogout(w)
               \/ WritePassword(w) \/ CommitRevoke(w)
        PROVE  SessionsInv'
    BY <1>7, RegisterKeeps, LoginKeeps, CommitCodesKeeps, HeirKeeps, LogoutKeeps, WriteKeeps, RevokeKeeps
  <1>8. ASSUME NEW w \in Workers, Fail(w) PROVE SessionsInv'
    BY <1>8, StopKeeps DEF Fail
  <1>9. ASSUME NEW w \in Workers, NEW v \in Workers, BreakDeadlock(w, v) PROVE SessionsInv'
    BY <1>9, StopKeeps DEF BreakDeadlock
  <1>10. ASSUME NEW a \in Accounts,
               AdminForgot(a) \/ CustomerForgot(a) \/ DeleteUser(a) \/ DeleteCustomer(a)
         PROVE  SessionsInv'
    BY <1>10, LinkKeeps, RemoveKeeps DEF AdminForgot, CustomerForgot, DeleteUser, DeleteCustomer
  <1>11. ASSUME NEW a \in Accounts, NEW on \in BOOLEAN, SetActive(a, on) PROVE SessionsInv'
    BY <1>11, SetActiveKeeps
  <1>12. CASE Tick
    BY <1>12, TickKeeps
  <1>13. CASE UNCHANGED vars
    BY <1>13 DEF vars, SessionsInv, SessionsType, Rotations, Heirs, Epochs, Makes, Reached, Ends,
                 RevocationReaches, CodesKnown, LinksKnown, Linked
  <1>14. CASE Next
    BY <1>3, <1>4, <1>5, <1>6, <1>7, <1>8, <1>9, <1>10, <1>11, <1>12, <1>14 DEF Next
  <1> QED
    BY <1>13, <1>14

(* The invariant always holds.                                             *)
LEMMA InvHolds == Spec => []SessionsInv
  BY InitInv, StepInv, PTL DEF Spec

-----------------------------------------------------------------------------
(* A refresh token has at most one heir, however many requests present it. *)
THEOREM OneHeirHolds == Spec => []OneHeir
  <1>1. SessionsInv => OneHeir
    <2> SUFFICES ASSUME SessionsInv, NEW t \in DOMAIN token
                 PROVE  Cardinality({u \in DOMAIN token : token[u].parent = t}) <= 1
      BY DEF OneHeir
    <2> DEFINE heirs == {u \in DOMAIN token : token[u].parent = t}
    <2>1. t # 0
      <3>1. DOMAIN token = 1..Len(token)
        BY DEF SessionsInv, SessionsType
      <3> QED
        BY <3>1
    <2>2. \A u, v \in heirs : u = v
      BY <2>1 DEF SessionsInv, Heirs
    <2>3. CASE heirs = {}
      BY <2>3, FS_EmptySet
    <2>4. CASE heirs # {}
      <3>1. PICK u : u \in heirs
        BY <2>4
      <3> HIDE DEF heirs
      <3>2. heirs = {u}
        BY <2>2, <3>1
      <3>3. Cardinality(heirs) = 1
        BY <3>2, FS_Singleton
      <3> QED
        BY <3>3 DEF heirs
    <2> QED
      BY <2>3, <2>4
  <1> QED
    BY <1>1, InvHolds, PTL

(* A session that began before a new password, or before a replayed token  *)
(* was noticed, is dead, unless its call was under way at the time.        *)
THEOREM RevocationReachesAll == Spec => []RevocationReaches
  <1>1. SessionsInv => RevocationReaches
    BY DEF SessionsInv
  <1> QED
    BY <1>1, InvHolds, PTL

(* A one-time code opens one session, and a link sets one password, as     *)
(* long as no two calls have overlapped on the row that tells.             *)
THEOREM UsedOnceHolds == Spec => []UsedOnce
  <1>1. SessionsInv => UsedOnce
    <2> SUFFICES ASSUME SessionsInv PROVE UsedOnce
      OBVIOUS
    <2>1. ASSUME NEW k \in DOMAIN link, seen.uses[k] > 1, k \notin seen.shared PROVE FALSE
      <3>1. seen.uses[k] <= 1 /\ k \in 1..MaxLinks
        BY <2>1, SessionsAssumption DEF SessionsInv, LinksKnown, SessionsType
      <3>2. seen.uses[k] \in Nat
        BY <3>1 DEF SessionsInv, SessionsType, Seen
      <3> QED
        BY <2>1, <3>1, <3>2
    <2> QED
      BY <2>1 DEF UsedOnce, SessionsInv, CodesKnown
  <1> QED
    BY <1>1, InvHolds, PTL
=============================================================================
