---------------------------- MODULE AccountProofs ----------------------------
(***************************************************************************)
(* Proofs about Account, for any number of requests, any clock and any     *)
(* lengths of codes, pauses and bans.                                      *)
(*                                                                         *)
(* No handler uses a transaction: what a worker does depends on the row as *)
(* it read it.  The invariant therefore says of every row a worker holds   *)
(* what it says of the row in the table.                                   *)
(***************************************************************************)
EXTENDS Account, TLAPS

\* A code was drawn, and ends when it should.
CodeOK(c, end) == c # 0 => c \in DOMAIN drawn /\ end = drawn[c] + Valid

\* What holds of every row that ever was in the table.
Stored(r) ==
  /\ CodeOK(r.otp, r.expires)
  /\ r.verified => r.login = "google" \/ proved
  /\ r.last = 0 <=> r.count = 0

\* The requests that reach a control point.
Reaches(o, c) ==
  /\ c = "guard" => o \in {"delete", "call"}
  /\ c = "lift" => o \in {"unban", "delete", "call"}
  /\ c = "find" => o \notin {"verify", "call", "unban"}
  /\ c = "google" => o = "google"
  /\ c = "insert" => o \in {"register", "google"}
  /\ c = "otp" => o \in {"login", "forgot"}
  /\ c = "resend" => o \in {"resend", "again"}
  /\ c = "match" => o \in {"verify", "reset"}
  /\ c = "save" => o \in {"verify", "reset", "email"}
  /\ c = "password" => o = "reset"
  /\ c = "delete" => o = "delete"
  /\ c = "ban" => o = "ban"
  /\ c = "role" => o = "role"

\* The row a worker holds was read from the table, and was not deleted then.  How the
\* address was registered never changes.
HoldsRow(p) ==
  job[p].row # NoRow =>
    /\ row # NoRow /\ row.login = job[p].row.login
    /\ Stored(job[p].row) /\ ~job[p].row.deleted

\* Somebody may have a token for the row.
Rightful == row # NoRow /\ (row.login = "google" \/ proved)

\* What a request may count on where it is.
WorkerOK(p) ==
  pc[p] # "idle" =>
    LET j == job[p] IN
    /\ Reaches(j.op, pc[p])
    /\ j.op = "google" => j.code = 0
    /\ j.op \in {"verify", "reset"} => j.code \in DOMAIN drawn
    /\ j.op \in {"email", "refresh", "delete", "call"} => tokens
    /\ pc[p] \in {"insert", "otp", "resend"} => CodeOK(j.code, j.due)
    /\ pc[p] = "save" /\ j.op # "email" => proved /\ j.row.otp = j.code
    /\ pc[p] = "lift" => /\ row # NoRow
                         /\ j.op # "unban" => j.row # NoRow /\ j.row.until <= now
    /\ pc[p] = "resend" => CanResend(j.row)

SafeInv ==
  /\ TypeOK
  /\ now >= 1
  /\ tokens => Rightful
  /\ row # NoRow => Stored(row)
  /\ \A p \in Workers : WorkerOK(p)
  /\ \A p \in Workers : pc[p] # "idle" => HoldsRow(p)

\* No request has presented c successfully.
Unredeemed(c) == \A n \in DOMAIN redeemed : redeemed[n] # c

\* A worker is about to write a code it has drawn.
Pending(p) == pc[p] \in {"insert", "otp", "resend"} /\ job[p].code # 0

\* Codes about to be written are fresh, and the one in the row was not redeemed, unless
\* requests overlapped.
CodesAreFresh ==
  /\ \A n \in DOMAIN redeemed : redeemed[n] \in DOMAIN drawn
  /\ \A p, q \in Workers : Pending(p) /\ Pending(q) /\ p # q => job[p].code # job[q].code
  /\ ~raced =>
       /\ row # NoRow /\ row.otp # 0 => Unredeemed(row.otp)
       /\ \A p \in Workers : Pending(p) =>
            Unredeemed(job[p].code) /\ (row # NoRow => row.otp # job[p].code)

\* The row counts the resends and knows the last one, unless requests overlapped.
RowCountsResends ==
  ~raced => /\ row = NoRow => resends = <<>>
            /\ row # NoRow => row.count = Len(resends)
            /\ row # NoRow /\ resends # <<>> => row.last = resends[Len(resends)]

----------------------------------------------------------------------------
(* Facts about the helpers.                                                *)

\* What never shrinks: the clock, the codes drawn, and what is known of the address.
Grows ==
  /\ now <= now'
  /\ tokens => tokens'
  /\ proved => proved'
  /\ row # NoRow => row' # NoRow /\ row'.login = row.login
  /\ \A c \in DOMAIN drawn : c \in DOMAIN drawn' /\ drawn'[c] = drawn[c]

\* Drawing a code leaves those drawn before where they were.
LEMMA AppendGrows ==
  ASSUME NEW S, NEW s \in Seq(S), NEW x \in S
  PROVE  /\ Append(s, x) \in Seq(S)
         /\ \A c \in DOMAIN s : c \in DOMAIN Append(s, x) /\ Append(s, x)[c] = s[c]
         /\ Len(s) + 1 \in DOMAIN Append(s, x)
         /\ Append(s, x)[Len(s) + 1] = x
         /\ Len(s) + 1 \in Nat \ {0}
         /\ Len(s) + 1 \notin DOMAIN s
         /\ Len(Append(s, x)) = Len(s) + 1
OBVIOUS

\* Neither rows nor requests nor orders are NoRow.
LEMMA RowsAndJobs ==
  /\ NoRow \notin User
  /\ NoRow \notin Job
  /\ NoRow \notin Orders
BY AccountAssumption

\* A request that arrives is a Job without a row.
LEMMA RequestTyping ==
  ASSUME NEW op \in Op, NEW code \in Nat, NEW due \in Nat, NEW r \in Role
  PROVE  LET k == Request(op, code, due, r)
         IN  k \in Job /\ k.op = op /\ k.code = code /\ k.row = NoRow
BY DEF Request, Job

\* Where a handler goes after its SELECT, and what it then knows of the row.
LEMMA AfterFindFacts ==
  ASSUME NEW j \in Job, NEW r \in User \cup {NoRow}, Reaches(j.op, "find")
  PROVE  LET c == AfterFind(j, r) IN
         /\ c \in {"idle", "insert", "otp", "resend", "match", "save", "token", "delete", "ban",
                   "role"}
         /\ c # "token" => Reaches(j.op, c)
         /\ c \notin {"idle", "insert"} => r # NoRow
         /\ c = "resend" => CanResend(r)
         /\ c = "token" => j.op = "refresh" \/ (j.op = "login" /\ r.verified)
         /\ c = "save" => j.op = "email"
<1>1. j.op \in Op \ {"verify", "call", "unban"}
  BY DEF Reaches, Job
<1>2. CASE r = NoRow
  BY <1>1, <1>2 DEF AfterFind, Reaches, Op
<1>3. CASE r # NoRow
  <2>1. CASE j.op = "register"
    BY <1>3, <2>1 DEF AfterFind, Reaches
  <2>2. CASE j.op = "google"
    BY <1>3, <2>2 DEF AfterFind, Reaches
  <2>3. CASE j.op = "login"
    BY <1>3, <2>3 DEF AfterFind, Reaches
  <2>4. CASE j.op = "resend"
    BY <1>3, <2>4 DEF AfterFind, Reaches
  <2>5. CASE j.op = "again"
    BY <1>3, <2>5 DEF AfterFind, Reaches
  <2>6. CASE j.op = "forgot"
    BY <1>3, <2>6 DEF AfterFind, Reaches
  <2>7. CASE j.op = "reset"
    BY <1>3, <2>7 DEF AfterFind, Reaches
  <2>8. CASE j.op = "email"
    BY <1>3, <2>8 DEF AfterFind, Reaches
  <2>9. CASE j.op = "refresh"
    BY <1>3, <2>9 DEF AfterFind, Reaches
  <2>10. CASE j.op = "delete"
    BY <1>3, <2>10 DEF AfterFind, Reaches
  <2>11. CASE j.op = "ban"
    BY <1>3, <2>11 DEF AfterFind, Reaches
  <2>12. CASE j.op = "role"
    BY <1>3, <2>12 DEF AfterFind, Reaches
  <2> QED BY <1>1, <2>1, <2>2, <2>3, <2>4, <2>5, <2>6, <2>7, <2>8, <2>9, <2>10, <2>11, <2>12 DEF Op
<1> QED BY <1>2, <1>3

\* A step of worker p keeps the types if what it writes is typed.
LEMMA StepType ==
  ASSUME TypeOK, NEW p \in Workers, NEW c \in Control, NEW k \in Job,
         pc' = [pc EXCEPT ![p] = c],
         job' = [job EXCEPT ![p] = IF c = "idle" THEN NoRow ELSE k],
         row' \in User \cup {NoRow}, row # NoRow => row' # NoRow,
         c \in {"otp", "resend", "save", "password", "delete", "ban", "role"} =>
           k.row # NoRow /\ row' # NoRow,
         now' = now, left' \in 0..Budget,
         drawn' \in Seq(Time), resends' \in Seq(Time), redeemed' \in Seq(Nat),
         tokens' \in BOOLEAN, proved' \in BOOLEAN, raced' \in BOOLEAN,
         orders' \in Orders \cup {NoRow}, row' # NoRow => orders' # NoRow
  PROVE  TypeOK'
<1>1. pc' \in [Workers -> Control] /\ job' \in [Workers -> Job \cup {NoRow}]
  BY DEF TypeOK
<1>2. \A q \in Workers : pc'[q] # "idle" => job'[q] \in Job
  BY DEF TypeOK
<1>3. \A q \in Workers :
        pc'[q] \in {"otp", "resend", "save", "password", "delete", "ban", "role"} =>
          job'[q].row # NoRow /\ row' # NoRow
  BY DEF TypeOK
<1> QED BY <1>1, <1>2, <1>3 DEF TypeOK

\* What a worker counts on stays true while others work and time passes.
LEMMA OthersStay ==
  ASSUME TypeOK, Grows, NEW q \in Workers, pc'[q] = pc[q], job'[q] = job[q],
         WorkerOK(q), pc[q] # "idle" => HoldsRow(q), now' \in Time
  PROVE  WorkerOK(q)' /\ (pc'[q] # "idle" => HoldsRow(q)')
<1>1. CASE pc[q] = "idle"
  BY <1>1 DEF WorkerOK
<1>2. CASE pc[q] # "idle"
  <2>1. job[q] \in Job /\ now \in Nat /\ now' \in Nat /\ now <= now'
    BY <1>2 DEF TypeOK, Time, Grows
  <2>2. job[q].row \in User \cup {NoRow}
    BY <2>1 DEF Job
  <2>3. HoldsRow(q)'
    BY <1>2 DEF HoldsRow, Stored, CodeOK, Grows
  <2>4. pc[q] = "resend" => CanResend(job[q].row)'
    <3> SUFFICES ASSUME pc[q] = "resend" PROVE CanResend(job[q].row)'
      OBVIOUS
    <3>1. CanResend(job[q].row)
      BY <1>2 DEF WorkerOK
    <3>2. job[q].row \in User
      BY <2>2 DEF TypeOK
    <3>3. job[q].row.last \in Nat /\ job[q].row.count \in Nat
      BY <3>2 DEF User
    <3>4. getOTPResendCooldown(job[q].row.count) \in Nat
      BY <3>3, AccountAssumption DEF getOTPResendCooldown
    <3>5. getOTPResendCooldown(job[q].row.count)' = getOTPResendCooldown(job[q].row.count)
      BY DEF getOTPResendCooldown
    <3>6. job[q].row.last = 0 \/ now >= job[q].row.last + getOTPResendCooldown(job[q].row.count)
      BY <3>1 DEF CanResend
    <3> QED BY <2>1, <3>3, <3>4, <3>5, <3>6 DEF CanResend
  <2>5. pc[q] = "lift" /\ job[q].op # "unban" => job[q].row # NoRow /\ job[q].row.until <= now'
    <3> SUFFICES ASSUME pc[q] = "lift", job[q].op # "unban"
                 PROVE  job[q].row # NoRow /\ job[q].row.until <= now'
      OBVIOUS
    <3>1. job[q].row # NoRow /\ job[q].row.until <= now
      BY <1>2 DEF WorkerOK
    <3>2. job[q].row.until \in Nat
      BY <2>2, <3>1 DEF User
    <3> QED BY <2>1, <3>1, <3>2
  <2>6. WorkerOK(q)'
    BY <1>2, <2>4, <2>5 DEF WorkerOK, Reaches, CodeOK, Grows
  <2> QED BY <2>3, <2>6
<1> QED BY <1>1, <1>2

\* A step of worker p keeps the invariant if it keeps what is said of the row and of p.
LEMMA StepKeeps ==
  ASSUME SafeInv, NEW p \in Workers, TypeOK', Grows,
         \A q \in Workers \ {p} : pc'[q] = pc[q] /\ job'[q] = job[q],
         tokens' => tokens \/ Rightful', row' # NoRow => Stored(row)',
         WorkerOK(p)', pc'[p] # "idle" => HoldsRow(p)'
  PROVE  SafeInv'
<1>1. now' \in Time /\ now' >= 1
  BY DEF SafeInv, TypeOK, Grows, Time
<1>2. ASSUME NEW q \in Workers PROVE WorkerOK(q)' /\ (pc'[q] # "idle" => HoldsRow(q)')
  BY <1>1, OthersStay DEF SafeInv
<1>3. tokens' => Rightful'
  BY DEF SafeInv, Rightful, Grows
<1> QED BY <1>1, <1>2, <1>3 DEF SafeInv

----------------------------------------------------------------------------
(* A request arrives.                                                      *)

LEMMA TakeStep ==
  ASSUME SafeInv, NEW p \in Workers, NEW op \in Op, NEW code \in Nat, NEW due \in Nat,
         NEW r \in Role, NEW c \in {"guard", "lift", "find", "google", "match"},
         Take(p, op, code, due, r, c), Reaches(op, c),
         op = "google" => code = 0,
         op \in {"verify", "reset"} => code \in DOMAIN drawn,
         op \in {"email", "refresh", "delete", "call"} => tokens,
         c = "lift" => row # NoRow /\ op = "unban"
  PROVE  SafeInv'
<1> DEFINE k == Request(op, code, due, r)
<1>1. k \in Job /\ k.op = op /\ k.code = code /\ k.row = NoRow
  BY RequestTyping
<1>2. /\ pc' = [pc EXCEPT ![p] = c] /\ job' = [job EXCEPT ![p] = k]
      /\ left' \in 0..Budget
      /\ UNCHANGED <<row, now, drawn, resends, redeemed, tokens, proved, orders, raced>>
  BY AccountAssumption DEF Take, history, SafeInv, TypeOK
<1> HIDE DEF k
<1>3. TypeOK'
  BY <1>1, <1>2, StepType DEF SafeInv, TypeOK, Control
<1>4. Grows
  BY <1>2 DEF Grows, SafeInv, TypeOK, Time
<1>5. pc'[p] = c /\ job'[p] = k /\ \A q \in Workers \ {p} : pc'[q] = pc[q] /\ job'[q] = job[q]
  BY <1>2 DEF SafeInv, TypeOK
<1>6. WorkerOK(p)' /\ HoldsRow(p)'
  BY <1>1, <1>2, <1>5 DEF WorkerOK, HoldsRow, Reaches
<1>7. row' # NoRow => Stored(row)'
  BY <1>2 DEF SafeInv, Stored, CodeOK
<1> QED BY <1>2, <1>3, <1>4, <1>5, <1>6, <1>7, StepKeeps DEF SafeInv

LEMMA BeginStep ==
  ASSUME SafeInv, NEW p \in Workers, Begin(p)
  PROVE  SafeInv'
<1> USE DEF Ask, Op, Role, Reaches
<1>1. DOMAIN drawn \subseteq Nat
  BY DEF SafeInv, TypeOK
<1>2. CASE Register(p)
  BY <1>2, TakeStep DEF Register
<1>3. CASE Login(p)
  BY <1>3, TakeStep DEF Login
<1>4. CASE GoogleOAuth(p)
  BY <1>4, TakeStep DEF GoogleOAuth
<1>5. CASE ResendOTP(p)
  BY <1>5, TakeStep DEF ResendOTP
<1>6. CASE RequestResetPassword(p)
  BY <1>6, TakeStep DEF RequestResetPassword
<1>7. CASE VerifyOTP(p)
  BY <1>1, <1>7, TakeStep DEF VerifyOTP
<1>8. CASE VerifyResetPassword(p)
  BY <1>1, <1>8, TakeStep DEF VerifyResetPassword
<1>9. CASE VerifyEmail(p)
  BY <1>9, TakeStep DEF VerifyEmail
<1>10. CASE RefreshToken(p)
  BY <1>10, TakeStep DEF RefreshToken
<1>11. CASE DeleteAccount(p)
  BY <1>11, TakeStep DEF DeleteAccount
<1>12. CASE Call(p)
  BY <1>12, TakeStep DEF Call
<1>13. CASE BanUser(p)
  BY <1>13, TakeStep, AccountAssumption DEF BanUser
<1>14. CASE UnbanUser(p)
  BY <1>14, TakeStep DEF UnbanUser
<1>15. CASE UpdateUserRole(p)
  BY <1>15, TakeStep DEF UpdateUserRole
<1> QED BY <1>2, <1>3, <1>4, <1>5, <1>6, <1>7, <1>8, <1>9, <1>10, <1>11, <1>12, <1>13, <1>14, <1>15
        DEF Begin

----------------------------------------------------------------------------
(* What the handlers read.                                                 *)

\* A SELECT finds nothing, or a row that is not deleted.
LEMMA FoundFacts ==
  ASSUME TypeOK
  PROVE  Found = NoRow \/ (Found = row /\ row \in User /\ ~row.deleted)
BY DEF TypeOK, Found

\* A step of worker p that reads and does not write the table.
LEMMA ReadStep ==
  ASSUME SafeInv, NEW p \in Workers, NEW c \in Control, NEW k \in Job, GoTo(p, k, c),
         pc[p] # "idle", k.op = job[p].op, k.row = job[p].row \/ k.row = Found \/ k.row = NoRow,
         UNCHANGED <<row, resends, redeemed, orders, raced>>,
         drawn' \in Seq(Time), tokens' \in BOOLEAN, proved' \in BOOLEAN,
         Grows, tokens' => tokens \/ Rightful',
         c \in {"otp", "resend", "save", "password", "delete", "ban", "role"} => k.row # NoRow,
         c # "idle" => Reaches(k.op, c),
         k.code = job[p].code \/ (k.op # "google" /\ k.code \in DOMAIN drawn'),
         c \in {"insert", "otp", "resend"} /\ k.code # 0 =>
           k.code \in DOMAIN drawn' /\ k.due = drawn'[k.code] + Valid,
         c = "save" /\ k.op # "email" => proved' /\ k.row.otp = k.code,
         c = "lift" => k.op # "unban" /\ k.row # NoRow /\ k.row.until <= now,
         c = "resend" => CanResend(k.row)
  PROVE  SafeInv'
<1>1. /\ pc' = [pc EXCEPT ![p] = c]
      /\ job' = [job EXCEPT ![p] = IF c = "idle" THEN NoRow ELSE k]
      /\ left' = left /\ now' = now
  BY DEF GoTo
<1>2. k.row = NoRow \/ (row # NoRow /\ Stored(k.row) /\ ~k.row.deleted)
  BY FoundFacts DEF SafeInv, HoldsRow
<1>3. TypeOK'
  BY <1>1, <1>2, StepType DEF SafeInv, TypeOK
<1>4. pc'[p] = c /\ (c # "idle" => job'[p] = k)
      /\ \A q \in Workers \ {p} : pc'[q] = pc[q] /\ job'[q] = job[q]
  BY <1>1 DEF SafeInv, TypeOK
<1>5. ASSUME c # "idle" PROVE HoldsRow(p)'
  <2> SUFFICES ASSUME k.row # NoRow
               PROVE  /\ row' # NoRow /\ row'.login = k.row.login
                      /\ Stored(k.row)' /\ ~k.row.deleted
    BY <1>4, <1>5 DEF HoldsRow, Stored, CodeOK
  <2>1. row.login = k.row.login
    BY FoundFacts, <1>2 DEF SafeInv, HoldsRow
  <2> QED BY <1>2, <2>1 DEF Stored, CodeOK, Grows
<1>6. WorkerOK(p)'
  <2> SUFFICES ASSUME c # "idle" PROVE WorkerOK(p)'
    BY <1>4 DEF WorkerOK
  <2>1. k.op = "google" => k.code = 0
    BY DEF SafeInv, WorkerOK
  <2>2. k.op \in {"verify", "reset"} => k.code \in DOMAIN drawn'
    BY DEF SafeInv, WorkerOK, Grows
  <2>3. k.op \in {"email", "refresh", "delete", "call"} => tokens'
    BY DEF SafeInv, WorkerOK, Grows
  <2>4. c = "lift" => row' # NoRow
    BY <1>2, <1>3
  <2>5. c = "resend" => CanResend(k.row)'
    BY <1>1 DEF CanResend, getOTPResendCooldown
  <2> QED BY <1>1, <1>4, <2>1, <2>2, <2>3, <2>4, <2>5 DEF WorkerOK, CodeOK
<1>7. row' # NoRow => Stored(row)'
  BY DEF SafeInv, Stored, CodeOK, Grows
<1> QED BY <1>3, <1>4, <1>5, <1>6, <1>7, StepKeeps

\* A request with another row, or with another row, code and end.
LEMMA JobTyping ==
  ASSUME NEW j \in Job, NEW r \in User \cup {NoRow}, NEW c \in Nat, NEW d \in Nat
  PROVE  /\ [j EXCEPT !.row = r] \in Job
         /\ [j EXCEPT !.row = r].op = j.op
         /\ [j EXCEPT !.row = r].code = j.code
         /\ [j EXCEPT !.row = r].row = r
         /\ [j EXCEPT !.row = r, !.code = c, !.due = d] \in Job
         /\ [j EXCEPT !.row = r, !.code = c, !.due = d].op = j.op
         /\ [j EXCEPT !.row = r, !.code = c, !.due = d].code = c
         /\ [j EXCEPT !.row = r, !.code = c, !.due = d].due = d
         /\ [j EXCEPT !.row = r, !.code = c, !.due = d].row = r
BY DEF Job

LEMMA FindStep ==
  ASSUME SafeInv, NEW p \in Workers, Find(p)
  PROVE  SafeInv'
<1> DEFINE j == job[p]
<1>1. j \in Job /\ pc[p] = "find" /\ Reaches(j.op, "find") /\ now \in Time /\ Valid \in Nat
  BY AccountAssumption DEF Find, SafeInv, TypeOK, WorkerOK
<1>2. PICK r \in {Found} \cup (IF Faults /\ j.op \in {"register", "google"} THEN {NoRow} ELSE {}) :
        LET c == AfterFind(j, r)
            draws == c \in {"otp", "resend"} \/ (c = "insert" /\ j.op = "register") IN
        /\ drawn' = IF draws THEN Append(drawn, now) ELSE drawn
        /\ tokens' = (tokens \/ c = "token")
        /\ GoTo(p, [j EXCEPT !.row  = r,
                             !.code = IF draws THEN Len(drawn) + 1 ELSE @,
                             !.due  = IF draws THEN now + Valid
                                      ELSE IF c = "ban" THEN now + @ ELSE @],
                IF c = "token" THEN "idle" ELSE c)
  BY DEF Find
<1> DEFINE a == AfterFind(j, r)
           c == IF a = "token" THEN "idle" ELSE a
           draws == a \in {"otp", "resend"} \/ (a = "insert" /\ j.op = "register")
           code == IF draws THEN Len(drawn) + 1 ELSE j.code
           due == IF draws THEN now + Valid ELSE IF a = "ban" THEN now + j.due ELSE j.due
           k == [j EXCEPT !.row = r, !.code = code, !.due = due]
<1>3. r \in User \cup {NoRow} /\ (r = NoRow \/ r = Found)
  BY <1>2, FoundFacts DEF SafeInv
<1>4. /\ a \in {"idle", "insert", "otp", "resend", "match", "save", "token", "delete", "ban", "role"}
      /\ a # "token" => Reaches(j.op, a)
      /\ a \notin {"idle", "insert"} => r # NoRow
      /\ a = "resend" => CanResend(r)
      /\ a = "token" => j.op = "refresh" \/ (j.op = "login" /\ r.verified)
      /\ a = "save" => j.op = "email"
  BY <1>1, <1>3, AfterFindFacts
<1>5. /\ drawn' = IF draws THEN Append(drawn, now) ELSE drawn
      /\ tokens' = (tokens \/ a = "token")
      /\ GoTo(p, k, c)
      /\ UNCHANGED <<row, resends, redeemed, proved, orders, raced>>
  BY <1>2 DEF Find
<1>6. drawn \in Seq(Time) /\ j.code \in Nat /\ j.due \in Nat /\ now \in Nat
  BY <1>1 DEF SafeInv, TypeOK, Job, Time
<1>7. code \in Nat /\ due \in Nat
  BY <1>1, <1>6, AppendGrows
<1>8. k \in Job /\ k.op = j.op /\ k.code = code /\ k.due = due /\ k.row = r
  <2> HIDE DEF code, due, j
  <2> QED BY <1>1, <1>3, <1>7 DEF Job
<1> HIDE DEF a, k, code, due, j
<1>9. /\ drawn' \in Seq(Time)
      /\ \A x \in DOMAIN drawn : x \in DOMAIN drawn' /\ drawn'[x] = drawn[x]
      /\ draws => Len(drawn) + 1 \in DOMAIN drawn' /\ drawn'[Len(drawn) + 1] = now
  BY <1>1, <1>5, <1>6, AppendGrows
<1>10. tokens' \in BOOLEAN /\ proved' \in BOOLEAN /\ (tokens' => tokens \/ Rightful')
  <2>1. a = "token" => Rightful'
    <3>1. CASE j.op = "refresh"
      BY <1>1, <1>5, <3>1 DEF SafeInv, WorkerOK, Rightful, j
    <3>2. CASE j.op = "login" /\ r.verified /\ a = "token"
      BY <1>3, <1>4, <1>5, <3>2, FoundFacts DEF SafeInv, Stored, Rightful
    <3> QED BY <1>4, <3>1, <3>2
  <2> QED BY <1>5, <2>1 DEF SafeInv, TypeOK
<1>11. Grows
  <2>1. now' = now
    BY <1>5 DEF GoTo
  <2>2. (tokens => tokens') /\ (proved => proved') /\ row' = row
    BY <1>5
  <2>3. now <= now'
    BY <1>6, <2>1
  <2> QED BY <1>9, <2>2, <2>3 DEF Grows
<1>12. code = j.code \/ (j.op # "google" /\ code \in DOMAIN drawn')
  BY <1>1, <1>4, <1>9 DEF code, Reaches
<1>13. c \in {"insert", "otp", "resend"} /\ code # 0 =>
         code \in DOMAIN drawn' /\ due = drawn'[code] + Valid
  <2>1. CASE draws
    BY <1>5, <1>9, <2>1 DEF code, due
  <2>2. CASE ~draws
    <3> SUFFICES ASSUME c \in {"insert", "otp", "resend"} PROVE code = 0
      OBVIOUS
    <3>1. j.op = "google"
      BY <1>4, <2>2 DEF Reaches
    <3> QED BY <1>1, <2>2, <3>1 DEF code, SafeInv, WorkerOK, j
  <2> QED BY <2>1, <2>2
<1>14. c \in Control /\ c # "lift"
  BY <1>4 DEF Control
<1>15. pc[p] # "idle" /\ k.op = job[p].op
  BY <1>1, <1>8 DEF j
<1>16. /\ c \in {"otp", "resend", "save", "password", "delete", "ban", "role"} => r # NoRow
       /\ c # "idle" => Reaches(k.op, c)
       /\ ~(c = "save" /\ k.op # "email")
       /\ c = "resend" => CanResend(k.row)
  BY <1>4, <1>8
<1>17. k.row = Found \/ k.row = NoRow
  BY <1>3, <1>8
<1>18. k.code = job[p].code \/ (k.op # "google" /\ k.code \in DOMAIN drawn')
  BY <1>8, <1>12 DEF j
<1> HIDE DEF c, draws
<1> QED BY <1>3, <1>5, <1>8, <1>9, <1>10, <1>11, <1>12, <1>13, <1>14, <1>15, <1>16, <1>17, <1>18, ReadStep

LEMMA FindGoogleStep ==
  ASSUME SafeInv, NEW p \in Workers, FindGoogle(p)
  PROVE  SafeInv'
<1>1. job[p] \in Job /\ pc[p] = "google" /\ Reaches(job[p].op, "google")
  BY DEF FindGoogle, SafeInv, TypeOK, WorkerOK
<1>2. PICK found \in {FoundByGoogle, FALSE} :
        tokens' = (tokens \/ found) /\ GoTo(p, job[p], IF found THEN "idle" ELSE "find")
  BY DEF FindGoogle
<1> DEFINE c == IF found THEN "idle" ELSE "find"
<1>3. c \in {"idle", "find"} /\ GoTo(p, job[p], c)
  BY <1>2
<1>4. UNCHANGED <<row, drawn, resends, redeemed, proved, orders, raced>>
  BY DEF FindGoogle
<1>5. found \in BOOLEAN /\ (found => Rightful')
  BY <1>2, <1>4, FoundFacts DEF FoundByGoogle, SafeInv, Rightful
<1>6. tokens' \in BOOLEAN /\ (tokens => tokens') /\ (tokens' => tokens \/ Rightful')
  BY <1>2, <1>4, <1>5 DEF SafeInv, TypeOK
<1>7. drawn' \in Seq(Time) /\ proved' \in BOOLEAN
  BY <1>4 DEF SafeInv, TypeOK
<1>8. Grows
  BY <1>3, <1>4, <1>6 DEF Grows, GoTo, SafeInv, TypeOK, Time
<1>9. c # "idle" => Reaches(job[p].op, c)
  BY <1>1, <1>3 DEF Reaches
<1> HIDE DEF c
<1> QED BY <1>1, <1>3, <1>4, <1>6, <1>7, <1>8, <1>9, ReadStep DEF Control

LEMMA GuardStep ==
  ASSUME SafeInv, NEW p \in Workers, Guard(p)
  PROVE  SafeInv'
<1>1. job[p] \in Job /\ pc[p] = "guard" /\ Reaches(job[p].op, "guard")
  BY DEF Guard, SafeInv, TypeOK, WorkerOK
<1>2. PICK r \in {Found} \cup (IF Faults THEN {NoRow} ELSE {}) :
        GoTo(p, [job[p] EXCEPT !.row = r], AfterGuard(job[p], r))
  BY DEF Guard
<1> DEFINE k == [job[p] EXCEPT !.row = r]
           c == AfterGuard(job[p], r)
<1>3. r \in User \cup {NoRow} /\ (r = Found \/ r = NoRow)
  BY <1>2, FoundFacts DEF SafeInv
<1>4. k \in Job /\ k.op = job[p].op /\ k.code = job[p].code /\ k.row = r
  BY <1>1, <1>3 DEF Job
<1>5. UNCHANGED <<row, drawn, resends, redeemed, tokens, proved, orders, raced>>
  BY DEF Guard, history
<1>6. now \in Nat /\ (r # NoRow => r.until \in Nat)
  BY <1>3 DEF SafeInv, TypeOK, Time, User
<1>7. /\ c \in {"find", "idle", "lift"}
      /\ c = "lift" => r # NoRow /\ r.until <= now
      /\ c = "find" => job[p].op = "delete"
  BY <1>6 DEF AfterGuard
<1>8. GoTo(p, k, c)
  BY <1>2
<1> HIDE DEF k, c
<1>9. c # "idle" => Reaches(k.op, c)
  BY <1>1, <1>4, <1>7 DEF Reaches
<1>10. /\ drawn' \in Seq(Time) /\ tokens' \in BOOLEAN /\ proved' \in BOOLEAN
       /\ (tokens' => tokens \/ Rightful')
  BY <1>5 DEF SafeInv, TypeOK
<1>11. Grows
  BY <1>5, <1>6, <1>8 DEF Grows, GoTo
<1>12. c = "lift" => k.op # "unban" /\ k.row # NoRow /\ k.row.until <= now
  BY <1>1, <1>4, <1>7 DEF Reaches
<1> QED BY <1>1, <1>3, <1>4, <1>5, <1>7, <1>8, <1>9, <1>10, <1>11, <1>12, ReadStep DEF Control

LEMMA MatchStep ==
  ASSUME SafeInv, NEW p \in Workers, Match(p)
  PROVE  SafeInv'
<1>1. job[p] \in Job /\ pc[p] = "match" /\ Reaches(job[p].op, "match")
  BY DEF Match, SafeInv, TypeOK, WorkerOK
<1>2. UNCHANGED <<row, drawn, resends, redeemed, tokens, orders, raced>>
  BY DEF Match
<1>3. drawn' \in Seq(Time) /\ tokens' \in BOOLEAN
  BY <1>2 DEF SafeInv, TypeOK
<1>4. CASE IsRight(Found, job[p].code)
  <2> DEFINE k == [job[p] EXCEPT !.row = Found]
  <2>1. proved' = TRUE /\ GoTo(p, k, "save")
    BY <1>4 DEF Match
  <2>2. Found \in User \cup {NoRow} /\ Found # NoRow /\ Found.otp = job[p].code
    BY <1>4, FoundFacts DEF IsRight, SafeInv
  <2>3. k \in Job /\ k.op = job[p].op /\ k.code = job[p].code /\ k.row = Found
    BY <1>1, <2>2 DEF Job
  <2> HIDE DEF k
  <2>4. Grows
    BY <1>2, <2>1 DEF Grows, GoTo, SafeInv, TypeOK, Time
  <2>5. Reaches(k.op, "save")
    BY <1>1, <2>3 DEF Reaches
  <2> QED BY <1>1, <1>2, <1>3, <2>1, <2>2, <2>3, <2>4, <2>5, ReadStep DEF Control
<1>5. CASE ~IsRight(Found, job[p].code)
  <2>1. UNCHANGED proved /\ GoTo(p, job[p], "idle")
    BY <1>5 DEF Match
  <2>2. Grows /\ proved' \in BOOLEAN /\ (tokens' => tokens \/ Rightful')
    BY <1>2, <2>1 DEF Grows, GoTo, SafeInv, TypeOK, Time
  <2> QED BY <1>1, <1>2, <1>3, <2>1, <2>2, ReadStep DEF Control
<1> QED BY <1>4, <1>5

\* The request ends and nothing else changes.
LEMMA GiveUpStep ==
  ASSUME SafeInv, NEW p \in Workers, pc[p] # "idle", GoTo(p, job[p], "idle"),
         UNCHANGED <<row, history>>
  PROVE  SafeInv'
<1>1. /\ job[p] \in Job
      /\ UNCHANGED <<row, drawn, resends, redeemed, tokens, proved, orders, raced>>
  BY DEF history, SafeInv, TypeOK
<1>2. /\ drawn' \in Seq(Time) /\ tokens' \in BOOLEAN /\ proved' \in BOOLEAN
      /\ (tokens' => tokens \/ Rightful')
  BY <1>1 DEF SafeInv, TypeOK
<1>3. Grows
  BY <1>1 DEF Grows, GoTo, SafeInv, TypeOK, Time
<1> QED BY <1>1, <1>2, <1>3, ReadStep DEF Control

\* A statement fails, or the process stops.
LEMMA AbortStep ==
  ASSUME SafeInv, NEW p \in Workers, Abort(p)
  PROVE  SafeInv'
BY GiveUpStep DEF Abort

----------------------------------------------------------------------------
(* What the handlers write.                                                *)

\* s has what the invariant is about from r.
Same(s, r) ==
  /\ s.login = r.login /\ s.verified = r.verified
  /\ s.otp = r.otp /\ s.expires = r.expires
  /\ s.count = r.count /\ s.last = r.last

\* Statements of one column change nothing else.
LEMMA ColumnTyping ==
  ASSUME NEW r \in User, NEW n \in Nat, NEW x \in Role
  PROVE  /\ LET s == [r EXCEPT !.password = n] IN
            s \in User /\ Same(s, r) /\ s.password = n /\ s.role = r.role /\ s.until = r.until
            /\ s.deleted = r.deleted
         /\ LET s == [r EXCEPT !.until = n] IN
            s \in User /\ Same(s, r) /\ s.until = n /\ s.role = r.role /\ s.password = r.password
            /\ s.deleted = r.deleted
         /\ LET s == [r EXCEPT !.role = x] IN
            s \in User /\ Same(s, r) /\ s.role = x /\ s.until = r.until /\ s.password = r.password
            /\ s.deleted = r.deleted
         /\ LET s == [r EXCEPT !.deleted = TRUE] IN
            s \in User /\ Same(s, r) /\ s.deleted = TRUE
BY DEF User, Same

\* UPDATE keeps a deleted row.
LEMMA UpdateFacts ==
  ASSUME row \in User, NEW s, s \in User, Update(s)
  PROVE  /\ row' \in User /\ row' # NoRow
         /\ row.deleted => row' = row
         /\ ~row.deleted => row' = s
BY RowsAndJobs DEF Update

\* A statement that writes columns the invariant is not about, and ends the request or
\* lets it go on to its SELECT.
LEMMA ColumnStep ==
  ASSUME SafeInv, NEW p \in Workers, NEW c \in {"idle", "find"}, GoTo(p, job[p], c),
         pc[p] # "idle", c = "find" => job[p].op = "delete",
         row \in User, row' \in User, Same(row', row),
         UNCHANGED <<drawn, resends, redeemed, tokens, proved>>,
         raced' \in BOOLEAN, orders' \in Orders
  PROVE  SafeInv'
<1>1. /\ pc' = [pc EXCEPT ![p] = c]
      /\ job' = [job EXCEPT ![p] = IF c = "idle" THEN NoRow ELSE job[p]]
      /\ left' = left /\ now' = now /\ job[p] \in Job /\ row # NoRow /\ row' # NoRow
  BY RowsAndJobs DEF GoTo, SafeInv, TypeOK
<1>2. TypeOK'
  BY <1>1, StepType, RowsAndJobs DEF SafeInv, TypeOK, Control
<1>3. Grows
  BY <1>1 DEF Grows, Same, SafeInv, TypeOK, Time
<1>4. pc'[p] = c /\ (c # "idle" => job'[p] = job[p])
      /\ \A q \in Workers \ {p} : pc'[q] = pc[q] /\ job'[q] = job[q]
  BY <1>1 DEF SafeInv, TypeOK
<1>5. WorkerOK(p)' /\ (pc'[p] # "idle" => HoldsRow(p)')
  <2>1. CASE c = "idle"
    BY <1>4, <2>1 DEF WorkerOK
  <2>2. CASE c = "find"
    <3>1. WorkerOK(p)'
      BY <1>4, <2>2 DEF SafeInv, WorkerOK, Reaches
    <3>2. HoldsRow(p)'
      BY <1>1, <1>4, <2>2 DEF SafeInv, HoldsRow, Stored, CodeOK, Same
    <3> QED BY <3>1, <3>2
  <2> QED BY <2>1, <2>2
<1>6. Stored(row)'
  BY <1>1 DEF SafeInv, Stored, CodeOK, Same
<1> QED BY <1>2, <1>3, <1>4, <1>5, <1>6, StepKeeps DEF SafeInv

\* Where the row is known to be there, and what was acknowledged with it.
LEMMA RowThere ==
  ASSUME SafeInv, NEW p \in Workers,
         pc[p] \in {"lift", "otp", "resend", "save", "password", "delete", "ban", "role"}
  PROVE  row \in User /\ orders \in Orders /\ job[p] \in Job
BY DEF SafeInv, TypeOK, WorkerOK

\* What the statements of one column do.
LEMMA ColumnEffect ==
  ASSUME SafeInv, NEW p \in Workers,
         UpdatePassword(p) \/ Delete(p) \/ Ban(p) \/ Unban(p) \/ SetRole(p)
  PROVE  /\ row \in User /\ row' \in User /\ Same(row', row)
         /\ orders' \in Orders /\ raced' \in BOOLEAN /\ (raced => raced')
         /\ UNCHANGED <<drawn, resends, redeemed, tokens, proved>>
         /\ pc[p] # "idle"
         /\ \E c \in {"idle", "find"} : GoTo(p, job[p], c) /\ (c = "find" => job[p].op = "delete")
<1>1. ASSUME NEW s, s \in User, Same(s, row), Update(s), row \in User
      PROVE  row' \in User /\ Same(row', row)
  BY <1>1, UpdateFacts DEF Same
<1>2. raced \in BOOLEAN /\ pc[p] \in Control
  BY DEF SafeInv, TypeOK
<1>3. CASE UpdatePassword(p)
  <2>1. pc[p] = "password" /\ row \in User /\ orders \in Orders /\ job[p] \in Job
    BY <1>3, RowThere DEF UpdatePassword
  <2>2. job[p].code \in Nat
    BY <2>1 DEF Job
  <2>3. row' \in User /\ Same(row', row)
    BY <1>1, <1>3, <2>1, <2>2, ColumnTyping DEF UpdatePassword, Role
  <2>4. orders' \in Orders
    BY <1>3, <2>1, <2>2 DEF UpdatePassword, Orders
  <2> QED BY <1>2, <1>3, <2>1, <2>3, <2>4 DEF UpdatePassword
<1>4. CASE Delete(p)
  <2>1. pc[p] = "delete" /\ row \in User /\ orders \in Orders
    BY <1>4, RowThere DEF Delete
  <2>2. row' \in User /\ Same(row', row)
    BY <1>1, <1>4, <2>1, ColumnTyping DEF Delete, Role
  <2>3. orders' \in Orders
    BY <1>4, <2>1 DEF Delete, Orders
  <2> QED BY <1>2, <1>4, <2>1, <2>2, <2>3 DEF Delete
<1>5. CASE Ban(p)
  <2>1. pc[p] = "ban" /\ row \in User /\ orders \in Orders /\ job[p] \in Job
    BY <1>5, RowThere DEF Ban
  <2>2. job[p].due \in Nat
    BY <2>1 DEF Job
  <2>3. row' \in User /\ Same(row', row)
    BY <1>1, <1>5, <2>1, <2>2, ColumnTyping DEF Ban, Role
  <2>4. orders' \in Orders
    BY <1>5, <2>1, <2>2 DEF Ban, Orders
  <2> QED BY <1>2, <1>5, <2>1, <2>3, <2>4 DEF Ban
<1>6. CASE Unban(p)
  <2>1. pc[p] = "lift" /\ row \in User /\ orders \in Orders
    BY <1>6, RowThere DEF Unban
  <2>2. row' \in User /\ Same(row', row)
    <3>1. Update([row EXCEPT !.until = 0]) \/ row' = row
      BY <1>6 DEF Unban
    <3>2. [row EXCEPT !.until = 0] \in User /\ Same([row EXCEPT !.until = 0], row)
      BY <2>1, ColumnTyping DEF Role
    <3> QED BY <1>1, <2>1, <3>1, <3>2 DEF Same
  <2>3. orders' \in Orders
    <3>1. orders' = orders \/ orders' = [orders EXCEPT !.until = 0]
      BY <1>6 DEF Unban
    <3> QED BY <2>1, <3>1 DEF Orders
  <2>5. raced' \in BOOLEAN /\ (raced => raced')
    <3>1. CASE job[p].op = "unban"
      BY <1>2, <1>6, <3>1 DEF Unban
    <3>2. CASE job[p].op # "unban"
      BY <1>6, <3>2 DEF Unban
    <3> QED BY <3>1, <3>2
  <2>4. PICK c \in {"idle", "find"} : GoTo(p, job[p], c) /\ (c = "find" => job[p].op = "delete")
    BY <1>6 DEF Unban
  <2> QED BY <1>6, <2>1, <2>2, <2>3, <2>4, <2>5 DEF Unban
<1>7. CASE SetRole(p)
  <2>1. pc[p] = "role" /\ row \in User /\ orders \in Orders /\ job[p] \in Job
    BY <1>7, RowThere DEF SetRole
  <2>2. job[p].role \in Role
    BY <2>1 DEF Job
  <2>3. row' \in User /\ Same(row', row)
    BY <1>1, <1>7, <2>1, <2>2, ColumnTyping DEF SetRole
  <2>4. orders' \in Orders
    BY <1>7, <2>1, <2>2 DEF SetRole, Orders
  <2> QED BY <1>2, <1>7, <2>1, <2>3, <2>4 DEF SetRole
<1> QED BY <1>3, <1>4, <1>5, <1>6, <1>7

LEMMA ColumnStatements ==
  ASSUME SafeInv, NEW p \in Workers,
         UpdatePassword(p) \/ Delete(p) \/ Ban(p) \/ Unban(p) \/ SetRole(p)
  PROVE  SafeInv'
<1>1. PICK c \in {"idle", "find"} : GoTo(p, job[p], c) /\ (c = "find" => job[p].op = "delete")
  BY ColumnEffect
<1> QED BY <1>1, ColumnEffect, ColumnStep

\* A statement that writes the row and ends the request, or lets it go on to the
\* password.
LEMMA WriteStep ==
  ASSUME SafeInv, NEW p \in Workers, NEW c \in {"idle", "password"}, GoTo(p, job[p], c),
         pc[p] # "idle", c = "password" => job[p].op = "reset" /\ job[p].row # NoRow,
         row' \in User, Stored(row)', drawn' = drawn,
         resends' \in Seq(Time), redeemed' \in Seq(Nat), raced' \in BOOLEAN,
         tokens' \in BOOLEAN, proved' \in BOOLEAN, tokens => tokens', proved => proved',
         row # NoRow => row'.login = row.login,
         tokens' => tokens \/ Rightful', orders' \in Orders
  PROVE  SafeInv'
<1>1. /\ pc' = [pc EXCEPT ![p] = c]
      /\ job' = [job EXCEPT ![p] = IF c = "idle" THEN NoRow ELSE job[p]]
      /\ left' = left /\ now' = now /\ job[p] \in Job /\ row' # NoRow
  BY RowsAndJobs DEF GoTo, SafeInv, TypeOK
<1>2. TypeOK'
  <2>1. left \in 0..Budget /\ drawn \in Seq(Time)
    BY DEF SafeInv, TypeOK
  <2>2. c \in {"otp", "resend", "save", "password", "delete", "ban", "role"} =>
          job[p].row # NoRow /\ row' # NoRow
    BY <1>1
  <2>3. orders' \in Orders \cup {NoRow} /\ (row' # NoRow => orders' # NoRow)
    BY RowsAndJobs
  <2> QED BY <1>1, <2>1, <2>2, <2>3, StepType DEF SafeInv, Control
<1>3. Grows
  BY <1>1 DEF Grows, SafeInv, TypeOK, Time
<1>4. pc'[p] = c /\ (c # "idle" => job'[p] = job[p])
      /\ \A q \in Workers \ {p} : pc'[q] = pc[q] /\ job'[q] = job[q]
  BY <1>1 DEF SafeInv, TypeOK
<1>5. WorkerOK(p)' /\ (pc'[p] # "idle" => HoldsRow(p)')
  <2>1. CASE c = "idle"
    BY <1>4, <2>1 DEF WorkerOK
  <2>2. CASE c = "password"
    <3>1. WorkerOK(p)'
      BY <1>4, <2>2 DEF SafeInv, WorkerOK, Reaches
    <3>2. HoldsRow(p)'
      BY <1>1, <1>3, <1>4, <2>2 DEF SafeInv, HoldsRow, Stored, CodeOK, Grows
    <3> QED BY <3>1, <3>2
  <2> QED BY <2>1, <2>2
<1> QED BY <1>2, <1>3, <1>4, <1>5, StepKeeps DEF SafeInv

\* The row of a new address.
LEMMA NewUserTyping ==
  ASSUME NEW j \in Job
  PROVE  LET r == NewUser(j) IN
         /\ r \in User
         /\ r.otp = j.code /\ r.expires = j.due /\ r.count = 0 /\ r.last = 0
         /\ r.verified => r.login = "google"
         /\ j.op = "google" => r.login = "google"
         /\ r.until = 0 /\ r.role = j.role /\ r.password = 0 /\ ~r.deleted
BY DEF NewUser, User, Job, Role

LEMMA InsertStep ==
  ASSUME SafeInv, NEW p \in Workers, Insert(p)
  PROVE  SafeInv'
<1>1. /\ job[p] \in Job /\ pc[p] = "insert" /\ GoTo(p, job[p], "idle")
      /\ UNCHANGED <<drawn, resends, redeemed, proved, raced>>
      /\ CodeOK(job[p].code, job[p].due)
  BY DEF Insert, SafeInv, TypeOK, WorkerOK
<1>2. CASE row # NoRow
  BY <1>1, <1>2, GiveUpStep DEF Insert, history
<1>3. CASE row = NoRow
  <2>1. /\ row' = NewUser(job[p])
        /\ tokens' = (tokens \/ job[p].op = "google")
        /\ orders' = [until |-> 0, role |-> job[p].role, password |-> 0, deleted |-> FALSE]
    BY <1>3 DEF Insert
  <2>2. row' \in User
    BY <1>1, <2>1, NewUserTyping
  <2>3. /\ tokens' \in BOOLEAN /\ proved' \in BOOLEAN
        /\ (tokens => tokens') /\ (proved => proved') /\ (tokens' => tokens \/ Rightful')
    BY <1>1, <2>1, <2>2, NewUserTyping, RowsAndJobs DEF SafeInv, TypeOK, Rightful
  <2>4. Stored(row)'
    BY <1>1, <2>1, NewUserTyping DEF Stored, CodeOK
  <2>5. orders' \in Orders
    BY <1>1, <2>1 DEF Orders, Job
  <2>6. resends' \in Seq(Time) /\ redeemed' \in Seq(Nat) /\ raced' \in BOOLEAN
    BY <1>1 DEF SafeInv, TypeOK
  <2> QED BY <1>1, <1>3, <2>2, <2>3, <2>4, <2>5, <2>6, WriteStep
<1> QED BY <1>2, <1>3

\* A row with a new code.
LEMMA WithCodeTyping ==
  ASSUME NEW r \in User, NEW j \in Job, NEW n \in Nat, NEW t \in Nat
  PROVE  /\ LET s == WithCode(r, j) IN
            /\ s \in User /\ s.otp = j.code /\ s.expires = j.due
            /\ s.login = r.login /\ s.verified = r.verified /\ s.count = r.count
            /\ s.last = r.last /\ s.until = r.until /\ s.role = r.role
            /\ s.password = r.password /\ s.deleted = r.deleted
         /\ LET s == [WithCode(r, j) EXCEPT !.count = n, !.last = t] IN
            /\ s \in User /\ s.otp = j.code /\ s.expires = j.due
            /\ s.login = r.login /\ s.verified = r.verified /\ s.count = n
            /\ s.last = t /\ s.until = r.until /\ s.role = r.role
            /\ s.password = r.password /\ s.deleted = r.deleted
<1> DEFINE s == WithCode(r, j)
<1>1. /\ s \in User /\ s.otp = j.code /\ s.expires = j.due
      /\ s.login = r.login /\ s.verified = r.verified /\ s.count = r.count
      /\ s.last = r.last /\ s.until = r.until /\ s.role = r.role
      /\ s.password = r.password /\ s.deleted = r.deleted
  BY DEF WithCode, User, Job
<1> HIDE DEF s
<1>2. LET u == [s EXCEPT !.count = n, !.last = t] IN
      /\ u \in User /\ u.otp = s.otp /\ u.expires = s.expires
      /\ u.login = s.login /\ u.verified = s.verified /\ u.count = n
      /\ u.last = t /\ u.until = s.until /\ u.role = s.role
      /\ u.password = s.password /\ u.deleted = s.deleted
  BY <1>1 DEF User
<1> QED BY <1>1, <1>2 DEF s

LEMMA UpdateOTPStep ==
  ASSUME SafeInv, NEW p \in Workers, UpdateOTP(p)
  PROVE  SafeInv'
<1>1. /\ pc[p] = "otp" /\ row \in User /\ orders \in Orders /\ job[p] \in Job
      /\ GoTo(p, job[p], "idle") /\ Update(WithCode(row, job[p]))
      /\ UNCHANGED <<drawn, resends, redeemed, tokens, proved, orders, raced>>
      /\ CodeOK(job[p].code, job[p].due) /\ Stored(row)
  BY RowThere, RowsAndJobs DEF UpdateOTP, history, SafeInv, WorkerOK
<1> DEFINE s == WithCode(row, job[p])
<1>2. /\ s \in User /\ s.otp = job[p].code /\ s.expires = job[p].due
      /\ s.login = row.login /\ s.verified = row.verified /\ s.count = row.count
      /\ s.last = row.last
  BY <1>1, WithCodeTyping
<1> HIDE DEF s
<1>3. row' \in User /\ (row' = row \/ row' = s)
  BY <1>1, <1>2, UpdateFacts DEF s
<1>4. Stored(row)'
  BY <1>1, <1>2, <1>3 DEF Stored, CodeOK
<1>5. /\ resends' \in Seq(Time) /\ redeemed' \in Seq(Nat) /\ raced' \in BOOLEAN
      /\ tokens' \in BOOLEAN /\ proved' \in BOOLEAN
      /\ (tokens' => tokens \/ Rightful')
  BY <1>1 DEF SafeInv, TypeOK
<1>6. row'.login = row.login
  BY <1>2, <1>3
<1> QED BY <1>1, <1>3, <1>4, <1>5, <1>6, WriteStep

LEMMA ResendStep ==
  ASSUME SafeInv, NEW p \in Workers, UpdateOTPWithResend(p)
  PROVE  SafeInv'
<1> DEFINE j == job[p]
           s == [WithCode(row, j) EXCEPT !.count = j.row.count + 1, !.last = now]
<1>1. /\ pc[p] = "resend" /\ row \in User /\ orders \in Orders /\ j \in Job
      /\ j.row \in User /\ now \in Time /\ now \in Nat /\ now >= 1
      /\ GoTo(p, j, "idle") /\ Update(s)
      /\ resends' = (IF row.deleted THEN resends ELSE Append(resends, now))
      /\ raced' = (raced \/ <<row.count, row.last>> # <<j.row.count, j.row.last>>)
      /\ UNCHANGED <<drawn, redeemed, tokens, proved, orders>>
      /\ CodeOK(j.code, j.due) /\ Stored(row)
  <2>1. pc[p] = "resend"
    BY DEF UpdateOTPWithResend
  <2>2. j.row \in User /\ now \in Time /\ now \in Nat
    BY <2>1 DEF SafeInv, TypeOK, Job, Time
  <2> QED BY <2>1, <2>2, RowThere, RowsAndJobs DEF UpdateOTPWithResend, SafeInv, WorkerOK
<1> HIDE DEF j
<1>2. j.row.count \in Nat /\ j.row.count + 1 \in Nat /\ j.row.count + 1 # 0 /\ now # 0
  <2>1. j.row \in User /\ now \in Nat /\ now >= 1
    BY <1>1
  <2> HIDE DEF s
  <2> QED BY <2>1 DEF User
<1>3. /\ s \in User /\ s.otp = j.code /\ s.expires = j.due
      /\ s.login = row.login /\ s.verified = row.verified /\ s.count = j.row.count + 1
      /\ s.last = now
  <2>1. row \in User /\ j \in Job /\ now \in Nat
    BY <1>1
  <2> DEFINE w == WithCode(row, j)
  <2>2. /\ w \in User /\ w.otp = j.code /\ w.expires = j.due
        /\ w.login = row.login /\ w.verified = row.verified
    BY <2>1, WithCodeTyping
  <2> HIDE DEF w
  <2>3. LET u == [w EXCEPT !.count = j.row.count + 1, !.last = now] IN
        /\ u \in User /\ u.otp = w.otp /\ u.expires = w.expires /\ u.login = w.login
        /\ u.verified = w.verified /\ u.count = j.row.count + 1 /\ u.last = now
    BY <1>2, <2>1, <2>2 DEF User
  <2> QED BY <2>2, <2>3 DEF w
<1> HIDE DEF s
<1>4. row' \in User /\ (row' = row \/ row' = s)
  BY <1>1, <1>3, UpdateFacts
<1>5. Stored(row)'
  BY <1>1, <1>2, <1>3, <1>4 DEF Stored, CodeOK
<1>6. /\ resends' \in Seq(Time) /\ redeemed' \in Seq(Nat) /\ raced' \in BOOLEAN
      /\ tokens' \in BOOLEAN /\ proved' \in BOOLEAN
      /\ (tokens' => tokens \/ Rightful')
  BY <1>1 DEF SafeInv, TypeOK
<1>7. row'.login = row.login
  BY <1>3, <1>4
<1> QED BY <1>1, <1>4, <1>5, <1>6, <1>7, WriteStep DEF j

\* The row VerifyOTP and VerifyEmail write.
LEMMA VerifiedTyping ==
  ASSUME NEW j \in Job, j.row \in User
  PROVE  LET s == Verified(j) IN
         /\ s \in User /\ s.verified
         /\ j.op = "email" => s.otp = j.row.otp /\ s.expires = j.row.expires
         /\ j.op # "email" => s.otp = 0
         /\ s.login = j.row.login /\ s.count = j.row.count /\ s.last = j.row.last
         /\ s.until = j.row.until /\ s.role = j.row.role /\ s.password = j.row.password
         /\ s.deleted = j.row.deleted
<1>1. CASE j.op = "email"
  BY <1>1 DEF Verified, User
<1>2. CASE j.op # "email"
  BY <1>2 DEF Verified, User
<1> QED BY <1>1, <1>2

LEMMA SaveStep ==
  ASSUME SafeInv, NEW p \in Workers, Save(p)
  PROVE  SafeInv'
<1> DEFINE j == job[p]
           c == IF j.op = "reset" THEN "password" ELSE "idle"
<1>1. /\ pc[p] = "save" /\ row \in User /\ orders \in Orders /\ j \in Job
      /\ j.row \in User /\ j.row # NoRow
      /\ row' = Verified(j) /\ GoTo(p, j, c)
      /\ raced' = (raced \/ row # j.row)
      /\ redeemed' = (IF j.op = "email" THEN redeemed ELSE Append(redeemed, j.code))
      /\ tokens' = (tokens \/ j.op # "reset")
      /\ UNCHANGED <<drawn, resends, proved, orders>>
  <2>1. pc[p] = "save"
    BY DEF Save
  <2>2. j.row \in User
    BY <2>1 DEF SafeInv, TypeOK, Job
  <2> QED BY <2>1, <2>2, RowThere, RowsAndJobs DEF Save
<1>2. (j.op # "email" => proved) /\ (j.op = "email" => tokens)
  BY <1>1 DEF SafeInv, WorkerOK
<1>3. Stored(j.row) /\ row # NoRow /\ row.login = j.row.login
  BY <1>1 DEF SafeInv, HoldsRow
<1>4. j.code \in Nat
  BY <1>1 DEF Job
<1> HIDE DEF j
<1>5. row' \in User
  BY <1>1, VerifiedTyping
<1>6. Stored(row)'
  BY <1>1, <1>2, <1>3, VerifiedTyping DEF Stored, CodeOK, SafeInv, Rightful
<1>7. /\ resends' \in Seq(Time) /\ redeemed' \in Seq(Nat) /\ raced' \in BOOLEAN
      /\ tokens' \in BOOLEAN /\ proved' \in BOOLEAN /\ (tokens => tokens')
  BY <1>1, <1>4 DEF SafeInv, TypeOK
<1>8. c \in {"idle", "password"} /\ (c = "password" => j.op = "reset")
  OBVIOUS
<1>9. row'.login = row.login
  BY <1>1, <1>3, VerifiedTyping
<1>10. tokens' => tokens \/ Rightful'
  BY <1>1, <1>2, <1>5, RowsAndJobs DEF Rightful
<1> HIDE DEF c
<1> QED BY <1>1, <1>5, <1>6, <1>7, <1>8, <1>9, <1>10, WriteStep DEF j

----------------------------------------------------------------------------
(* The invariant.                                                          *)

LEMMA TickStep ==
  ASSUME SafeInv, Tick \/ UNCHANGED vars
  PROVE  SafeInv'
<1>1. /\ UNCHANGED <<row, pc, job, left, drawn, resends, redeemed, tokens, proved, orders, raced>>
      /\ now' \in Time /\ now <= now'
  BY AccountAssumption DEF Tick, vars, history, SafeInv, TypeOK, Time
<1>2. TypeOK'
  BY <1>1 DEF SafeInv, TypeOK
<1>3. Grows
  BY <1>1 DEF Grows
<1>4. ASSUME NEW q \in Workers PROVE WorkerOK(q)' /\ (pc'[q] # "idle" => HoldsRow(q)')
  BY <1>1, <1>3, OthersStay DEF SafeInv
<1>5. now' >= 1
  BY <1>1 DEF SafeInv, TypeOK, Time
<1>6. row' # NoRow => Stored(row)'
  BY <1>1 DEF SafeInv, Stored, CodeOK
<1>7. tokens' => Rightful'
  BY <1>1 DEF SafeInv, Rightful
<1> QED BY <1>1, <1>2, <1>4, <1>5, <1>6, <1>7 DEF SafeInv

LEMMA ServeStep ==
  ASSUME SafeInv, NEW p \in Workers, Serve(p)
  PROVE  SafeInv'
BY FindStep, FindGoogleStep, GuardStep, MatchStep, InsertStep, UpdateOTPStep, ResendStep,
   SaveStep, ColumnStatements DEF Serve

LEMMA InitSafe == Init => SafeInv
<1> SUFFICES ASSUME Init PROVE SafeInv
  OBVIOUS
<1>1. now \in Time /\ left \in 0..Budget
  BY AccountAssumption DEF Init, Time
<1>2. drawn \in Seq(Time) /\ resends \in Seq(Time) /\ redeemed \in Seq(Nat)
  BY DEF Init
<1>3. TypeOK
  BY <1>1, <1>2 DEF Init, TypeOK, Control
<1>4. \A p \in Workers : pc[p] = "idle"
  BY DEF Init
<1> QED BY <1>3, <1>4 DEF Init, SafeInv, WorkerOK

LEMMA NextSafe ==
  ASSUME SafeInv, [Next]_vars
  PROVE  SafeInv'
BY BeginStep, ServeStep, AbortStep, TickStep DEF Next

LEMMA Safety == Spec => []SafeInv
BY InitSafe, NextSafe, PTL DEF Spec

\* The row, the clock, the requests and what is recorded of them keep their types, and a
\* statement that needs a row finds one.
THEOREM TypeCorrect == Spec => []TypeOK
<1>1. SafeInv => TypeOK
  BY DEF SafeInv
<1> QED BY <1>1, Safety, PTL

\* Whatever interleaves and fails, an address that was registered with a password gives
\* nobody a token, and does not count as verified, before a code mailed to it came back.
THEOREM TokensNeedProof == Spec => []TokensNeedVerification
<1>1. SafeInv => TokensNeedVerification
  BY DEF SafeInv, Stored, Rightful, TokensNeedVerification
<1> QED BY <1>1, Safety, PTL

----------------------------------------------------------------------------
(* What requests leave behind in the table and in its history.             *)

\* Requests that arrive, read, fail or find the address taken write nothing.
LEMMA ReadEffect ==
  ASSUME SafeInv, NEW p \in Workers,
         \/ Begin(p) \/ Find(p) \/ FindGoogle(p) \/ Guard(p) \/ Match(p) \/ Abort(p)
         \/ Tick \/ UNCHANGED vars \/ (Insert(p) /\ row # NoRow)
  PROVE  /\ UNCHANGED <<row, resends, redeemed, orders, raced>>
         /\ now <= now'
<1>1. now \in Nat
  BY DEF SafeInv, TypeOK, Time
<1>2. CASE Begin(p)
  <2>1. \E op, code, due, r, c : Take(p, op, code, due, r, c)
    BY <1>2 DEF Begin, Register, Login, GoogleOAuth, ResendOTP, RequestResetPassword, VerifyOTP,
       VerifyResetPassword, VerifyEmail, RefreshToken, DeleteAccount, Call, BanUser, UnbanUser,
       UpdateUserRole, Ask
  <2> QED BY <1>1, <2>1 DEF Take, history
<1>3. CASE Find(p)
  <2>1. \E k, c : GoTo(p, k, c)
    BY <1>3 DEF Find
  <2>2. now' = now
    BY <2>1 DEF GoTo
  <2>3. UNCHANGED <<row, resends, redeemed, orders, raced>>
    BY <1>3 DEF Find
  <2> QED BY <1>1, <2>2, <2>3
<1>4. CASE FindGoogle(p)
  BY <1>1, <1>4 DEF FindGoogle, GoTo
<1>5. CASE Guard(p)
  BY <1>1, <1>5 DEF Guard, GoTo, history
<1>6. CASE Match(p)
  BY <1>1, <1>6 DEF Match, GoTo
<1>7. CASE Abort(p)
  BY <1>1, <1>7 DEF Abort, GoTo, history
<1>8. CASE Tick \/ UNCHANGED vars
  BY <1>1, <1>8 DEF Tick, vars, history
<1>9. CASE Insert(p) /\ row # NoRow
  BY <1>1, <1>9 DEF Insert, GoTo
<1> QED BY <1>2, <1>3, <1>4, <1>5, <1>6, <1>7, <1>8, <1>9

\* The first registration of the address.
LEMMA InsertEffect ==
  ASSUME SafeInv, NEW p \in Workers, Insert(p), row = NoRow
  PROVE  /\ job[p] \in Job /\ pc[p] = "insert"
         /\ row' \in User /\ row' # NoRow
         /\ row'.otp = job[p].code /\ row'.count = 0 /\ row'.last = 0
         /\ row'.until = 0 /\ row'.role = job[p].role /\ row'.password = 0 /\ ~row'.deleted
         /\ orders' = [until |-> 0, role |-> job[p].role, password |-> 0, deleted |-> FALSE]
         /\ UNCHANGED <<drawn, resends, redeemed, raced, now>>
         /\ GoTo(p, job[p], "idle")
<1>1. job[p] \in Job /\ pc[p] = "insert"
  BY DEF Insert, SafeInv, TypeOK
<1>2. row' = NewUser(job[p])
  BY DEF Insert
<1> QED BY <1>1, <1>2, NewUserTyping, RowsAndJobs DEF Insert, GoTo

\* A new code changes nothing else, a resend also what is known of the resends.
LEMMA CodeEffect ==
  ASSUME SafeInv, NEW p \in Workers, UpdateOTP(p) \/ UpdateOTPWithResend(p)
  PROVE  /\ row \in User /\ row' \in User /\ job[p] \in Job
         /\ pc[p] \in {"otp", "resend"} /\ GoTo(p, job[p], "idle")
         /\ row' = row \/ row'.otp = job[p].code
         /\ row'.until = row.until /\ row'.role = row.role /\ row'.password = row.password
         /\ row'.deleted = row.deleted
         /\ UNCHANGED <<drawn, redeemed, orders, now>> /\ (raced => raced')
         /\ UpdateOTP(p) => /\ row'.count = row.count /\ row'.last = row.last
                            /\ UNCHANGED <<resends, raced>>
         /\ UpdateOTPWithResend(p) /\ ~row.deleted =>
              /\ row'.count = job[p].row.count + 1 /\ row'.last = now
              /\ resends' = Append(resends, now)
         /\ UpdateOTPWithResend(p) /\ row.deleted => row' = row /\ UNCHANGED resends
         /\ UpdateOTPWithResend(p) /\ ~raced' =>
              job[p].row.count = row.count /\ job[p].row.last = row.last
<1>1. pc[p] \in {"otp", "resend"} /\ row \in User /\ job[p] \in Job
  BY RowThere DEF UpdateOTP, UpdateOTPWithResend
<1>2. CASE UpdateOTP(p)
  <2> DEFINE s == WithCode(row, job[p])
  <2>1. /\ GoTo(p, job[p], "idle") /\ Update(s)
        /\ UNCHANGED <<drawn, resends, redeemed, tokens, proved, orders, raced>>
    BY <1>2 DEF UpdateOTP, history
  <2>2. /\ s \in User /\ s.otp = job[p].code /\ s.count = row.count /\ s.last = row.last
        /\ s.until = row.until /\ s.role = row.role /\ s.password = row.password
        /\ s.deleted = row.deleted
    BY <1>1, WithCodeTyping
  <2> HIDE DEF s
  <2>3. row' \in User /\ (row' = row \/ row' = s)
    BY <1>1, <2>1, <2>2, UpdateFacts
  <2>4. ~UpdateOTPWithResend(p)
    BY <1>2 DEF UpdateOTP, UpdateOTPWithResend
  <2> QED BY <1>1, <1>2, <2>1, <2>2, <2>3, <2>4 DEF GoTo
<1>3. CASE UpdateOTPWithResend(p)
  <2> DEFINE n == job[p].row.count + 1
             w == WithCode(row, job[p])
             s == [w EXCEPT !.count = n, !.last = now]
  <2>1. /\ GoTo(p, job[p], "idle") /\ Update(s) /\ pc[p] = "resend"
        /\ resends' = (IF row.deleted THEN resends ELSE Append(resends, now))
        /\ raced' = (raced \/ <<row.count, row.last>> # <<job[p].row.count, job[p].row.last>>)
        /\ UNCHANGED <<drawn, redeemed, tokens, proved, orders>>
    BY <1>3 DEF UpdateOTPWithResend
  <2>2. n \in Nat /\ now \in Nat
    <3>1. job[p].row \in User /\ now \in Nat
      BY <1>1, <2>1 DEF SafeInv, TypeOK, Job, Time
    <3> QED BY <3>1 DEF User
  <2>3. /\ w \in User /\ w.otp = job[p].code
        /\ w.until = row.until /\ w.role = row.role /\ w.password = row.password
        /\ w.deleted = row.deleted
    BY <1>1, WithCodeTyping
  <2> HIDE DEF w, n
  <2>4. /\ s \in User /\ s.otp = w.otp /\ s.count = n /\ s.last = now
        /\ s.until = w.until /\ s.role = w.role /\ s.password = w.password
        /\ s.deleted = w.deleted
    BY <2>2, <2>3 DEF User
  <2> HIDE DEF s
  <2>5. /\ row' \in User /\ (row.deleted => row' = row) /\ (~row.deleted => row' = s)
    BY <1>1, <2>1, <2>4, UpdateFacts
  <2>6. ~UpdateOTP(p)
    BY <2>1 DEF UpdateOTP
  <2>7. ~raced' => job[p].row.count = row.count /\ job[p].row.last = row.last
    BY <2>1
  <2>8. raced => raced'
    BY <2>1
  <2> QED BY <1>1, <2>1, <2>3, <2>4, <2>5, <2>6, <2>7, <2>8 DEF GoTo, n
<1> QED BY <1>2, <1>3

\* A row written back as a whole is the row that was there, but for the verification and
\* the code, or requests overlapped.
LEMMA SaveEffect ==
  ASSUME SafeInv, NEW p \in Workers, Save(p)
  PROVE  /\ job[p] \in Job /\ pc[p] = "save" /\ row' \in User /\ row \in User
         /\ \E c \in {"idle", "password"} : GoTo(p, job[p], c)
         /\ UNCHANGED <<drawn, resends, orders, now>> /\ (raced => raced')
         /\ job[p].op = "email" => redeemed' = redeemed
         /\ job[p].op # "email" => /\ redeemed' = Append(redeemed, job[p].code)
                                   /\ row'.otp = 0
                                   /\ job[p].code # 0 /\ job[p].code \in DOMAIN drawn
         /\ ~raced' =>
              /\ ~raced
              /\ row'.count = row.count /\ row'.last = row.last /\ row'.until = row.until
              /\ row'.role = row.role /\ row'.password = row.password
              /\ row'.deleted = row.deleted
              /\ job[p].op = "email" => row'.otp = row.otp
              /\ job[p].op # "email" => row.otp = job[p].code
<1> DEFINE j == job[p]
<1>1. pc[p] = "save" /\ j \in Job /\ row \in User
  BY RowThere DEF Save
<1>2. j.row \in User
  BY <1>1 DEF SafeInv, TypeOK, Job
<1>3. j.op # "email" => j.code \in DOMAIN drawn /\ j.row.otp = j.code
  BY <1>1 DEF SafeInv, WorkerOK, Reaches
<1>4. drawn \in Seq(Time)
  BY DEF SafeInv, TypeOK
<1>5. /\ row' = Verified(j) /\ GoTo(p, j, IF j.op = "reset" THEN "password" ELSE "idle")
      /\ raced' = (raced \/ row # j.row)
      /\ redeemed' = (IF j.op = "email" THEN redeemed ELSE Append(redeemed, j.code))
      /\ UNCHANGED <<drawn, resends, orders>>
  BY DEF Save
<1> HIDE DEF j
<1>6. /\ row' \in User
      /\ j.op = "email" => row'.otp = j.row.otp
      /\ j.op # "email" => row'.otp = 0
      /\ row'.count = j.row.count /\ row'.last = j.row.last
      /\ row'.until = j.row.until /\ row'.role = j.row.role /\ row'.password = j.row.password
      /\ row'.deleted = j.row.deleted
  BY <1>1, <1>2, <1>5, VerifiedTyping
<1>7. ~raced' => ~raced /\ row = j.row
  BY <1>5
<1>8. \E c \in {"idle", "password"} : GoTo(p, j, c)
  BY <1>5
<1>9. now' = now
  BY <1>5 DEF GoTo
<1>10. j.op # "email" => j.code # 0
  BY <1>3, <1>4
<1> QED BY <1>1, <1>3, <1>5, <1>6, <1>7, <1>8, <1>9, <1>10 DEF j

----------------------------------------------------------------------------
(* What was acknowledged.                                                  *)

\* A step that changes neither the columns concerned nor what was acknowledged.
LEMMA OrdersStay ==
  ASSUME SafeInv, AcknowledgedChangesSurvive,
         ~raced' /\ row' # NoRow =>
           /\ ~raced /\ row # NoRow
           /\ row'.until = row.until /\ row'.role = row.role /\ row'.password = row.password
           /\ row'.deleted = row.deleted,
         orders' = orders, now <= now', now' \in Nat
  PROVE  AcknowledgedChangesSurvive'
<1> SUFFICES ASSUME row' # NoRow, ~raced'
             PROVE  /\ row'.deleted = orders'.deleted
                    /\ ~row'.deleted => /\ row'.role = orders'.role
                                        /\ row'.password = orders'.password
                                        /\ row'.until # orders'.until =>
                                             row'.until = 0 /\ orders'.until <= now'
  BY DEF AcknowledgedChangesSurvive
<1>1. orders.until \in Nat /\ now \in Nat
  BY DEF SafeInv, TypeOK, Orders, Time
<1> QED BY <1>1 DEF AcknowledgedChangesSurvive

\* A statement of one column and what it acknowledges.
LEMMA ColumnOrders ==
  ASSUME SafeInv, AcknowledgedChangesSurvive, NEW p \in Workers,
         UpdatePassword(p) \/ Delete(p) \/ Ban(p) \/ Unban(p) \/ SetRole(p)
  PROVE  AcknowledgedChangesSurvive'
<1> USE DEF Orders
<1>1. row \in User /\ row # NoRow /\ orders \in Orders /\ job[p] \in Job
  BY RowThere, RowsAndJobs DEF UpdatePassword, Delete, Ban, Unban, SetRole
<1>2. now \in Nat /\ now' = now
  BY DEF UpdatePassword, Delete, Ban, Unban, SetRole, GoTo, SafeInv, TypeOK, Time
<1>3. job[p].code \in Nat /\ job[p].due \in Nat /\ job[p].role \in Role
  BY <1>1 DEF Job
<1>4. CASE UpdatePassword(p)
  <2> DEFINE s == [row EXCEPT !.password = job[p].code]
  <2>1. /\ Update(s) /\ raced' = raced
        /\ orders' = [orders EXCEPT !.password = job[p].code]
    BY <1>4 DEF UpdatePassword
  <2>2. /\ s \in User /\ s.until = row.until /\ s.role = row.role /\ s.deleted = row.deleted
        /\ s.password = job[p].code
    BY <1>1, <1>3 DEF User
  <2> HIDE DEF s
  <2>3. /\ row.deleted => row' = row
        /\ ~row.deleted => row' = s
    BY <1>1, <2>1, <2>2, UpdateFacts
  <2> QED BY <1>1, <1>2, <2>1, <2>2, <2>3 DEF AcknowledgedChangesSurvive
<1>5. CASE Delete(p)
  <2> DEFINE s == [row EXCEPT !.deleted = TRUE]
  <2>1. /\ Update(s) /\ raced' = raced
        /\ orders' = [orders EXCEPT !.deleted = TRUE]
    BY <1>5 DEF Delete
  <2>2. s \in User /\ s.deleted
    BY <1>1, ColumnTyping DEF Role
  <2> HIDE DEF s
  <2>3. row'.deleted
    BY <1>1, <2>1, <2>2, UpdateFacts
  <2>4. row'.deleted = TRUE
    BY <1>1, <2>1, <2>2, <2>3, UpdateFacts DEF User
  <2> QED BY <1>1, <2>1, <2>4 DEF AcknowledgedChangesSurvive
<1>6. CASE Ban(p)
  <2> DEFINE s == [row EXCEPT !.until = job[p].due]
  <2>1. /\ Update(s) /\ raced' = raced
        /\ orders' = [orders EXCEPT !.until = job[p].due]
    BY <1>6 DEF Ban
  <2>2. /\ s \in User /\ s.password = row.password /\ s.role = row.role
        /\ s.deleted = row.deleted /\ s.until = job[p].due
    BY <1>1, <1>3 DEF User
  <2> HIDE DEF s
  <2>3. /\ row.deleted => row' = row
        /\ ~row.deleted => row' = s
    BY <1>1, <2>1, <2>2, UpdateFacts
  <2> QED BY <1>1, <1>2, <2>1, <2>2, <2>3 DEF AcknowledgedChangesSurvive
<1>7. CASE Unban(p)
  <2> DEFINE s == [row EXCEPT !.until = 0]
  <2>1. pc[p] = "lift" /\ (Update(s) \/ (job[p].op # "unban" /\ row' = row))
    BY <1>7 DEF Unban
  <2>2. /\ s \in User /\ s.password = row.password /\ s.role = row.role
        /\ s.deleted = row.deleted /\ s.until = 0
    BY <1>1 DEF User
  <2> HIDE DEF s
  <2>3. /\ row.deleted => row' = row
        /\ ~row.deleted => row' = s \/ (job[p].op # "unban" /\ row' = row)
    BY <1>1, <2>1, <2>2, UpdateFacts
  <2>4. CASE job[p].op = "unban"
    <3>1. orders' = [orders EXCEPT !.until = 0] /\ raced' = raced
      BY <1>7, <2>4 DEF Unban
    <3>2. ~row.deleted => row' = s
      BY <2>3, <2>4
    <3> QED BY <1>1, <1>2, <2>2, <2>3, <3>1, <3>2 DEF AcknowledgedChangesSurvive
  <2>5. CASE job[p].op # "unban"
    <3>1. orders' = orders /\ raced' = (raced \/ row.until # job[p].row.until)
      BY <1>7, <2>5 DEF Unban
    <3>2. job[p].row.until <= now
      BY <2>1, <2>5 DEF SafeInv, WorkerOK
    <3>3. ~raced' => ~raced /\ row.until <= now
      BY <3>1, <3>2
    <3> QED BY <1>1, <1>2, <2>2, <2>3, <3>1, <3>3 DEF AcknowledgedChangesSurvive
  <2> QED BY <2>4, <2>5
<1>8. CASE SetRole(p)
  <2> DEFINE s == [row EXCEPT !.role = job[p].role]
  <2>1. /\ Update(s) /\ raced' = raced
        /\ orders' = [orders EXCEPT !.role = job[p].role]
    BY <1>8 DEF SetRole
  <2>2. /\ s \in User /\ s.until = row.until /\ s.password = row.password
        /\ s.deleted = row.deleted /\ s.role = job[p].role
    BY <1>1, <1>3 DEF User
  <2> HIDE DEF s
  <2>3. /\ row.deleted => row' = row
        /\ ~row.deleted => row' = s
    BY <1>1, <2>1, <2>2, UpdateFacts
  <2> QED BY <1>1, <1>2, <2>1, <2>2, <2>3 DEF AcknowledgedChangesSurvive
<1> QED BY <1>4, <1>5, <1>6, <1>7, <1>8

LEMMA OrdersStep ==
  ASSUME SafeInv, SafeInv', AcknowledgedChangesSurvive, [Next]_vars
  PROVE  AcknowledgedChangesSurvive'
<1>1. now \in Nat /\ now' \in Nat
  BY DEF SafeInv, TypeOK, Time
<1>2. CASE Tick \/ UNCHANGED vars
  <2>1. UNCHANGED <<row, orders, raced>> /\ now <= now'
    BY <1>1, <1>2 DEF Tick, vars, history
  <2> QED BY <1>1, <2>1, OrdersStay
<1>3. ASSUME NEW p \in Workers, Begin(p) \/ Serve(p) \/ Abort(p)
      PROVE  AcknowledgedChangesSurvive'
  <2>1. CASE \/ Begin(p) \/ Find(p) \/ FindGoogle(p) \/ Guard(p) \/ Match(p) \/ Abort(p)
             \/ (Insert(p) /\ row # NoRow)
    <3>1. UNCHANGED <<row, orders, raced>> /\ now <= now'
      BY <2>1, ReadEffect
    <3> QED BY <1>1, <3>1, OrdersStay
  <2>2. CASE Insert(p) /\ row = NoRow
    <3>1. /\ row'.until = 0 /\ row'.role = job[p].role /\ row'.password = 0 /\ ~row'.deleted
          /\ row' \in User
          /\ orders' = [until |-> 0, role |-> job[p].role, password |-> 0, deleted |-> FALSE]
      BY <2>2, InsertEffect
    <3>2. row'.deleted = FALSE
      BY <3>1 DEF User
    <3> QED BY <3>1, <3>2 DEF AcknowledgedChangesSurvive
  <2>3. CASE UpdateOTP(p) \/ UpdateOTPWithResend(p)
    <3>1. /\ row # NoRow /\ orders' = orders /\ now' = now /\ (raced => raced')
          /\ row'.until = row.until /\ row'.role = row.role /\ row'.password = row.password
          /\ row'.deleted = row.deleted
      BY <2>3, CodeEffect, RowsAndJobs
    <3> QED BY <1>1, <3>1, OrdersStay
  <2>4. CASE Save(p)
    <3>1. /\ row # NoRow /\ orders' = orders /\ now' = now
          /\ ~raced' => /\ ~raced
                        /\ row'.until = row.until /\ row'.role = row.role
                        /\ row'.password = row.password /\ row'.deleted = row.deleted
      BY <2>4, SaveEffect, RowsAndJobs
    <3> QED BY <1>1, <3>1, OrdersStay
  <2>5. CASE UpdatePassword(p) \/ Delete(p) \/ Ban(p) \/ Unban(p) \/ SetRole(p)
    BY <2>5, ColumnOrders
  <2> QED BY <1>3, <2>1, <2>2, <2>3, <2>4, <2>5 DEF Serve
<1> QED BY <1>2, <1>3 DEF Next

\* A ban, a role, a password or a deletion that was acknowledged stays until the next
\* one, unless a request wrote back or lifted what it had read too early.
THEOREM AcknowledgedChangesStay == Spec => []AcknowledgedChangesSurvive
<1>1. Init => AcknowledgedChangesSurvive
  BY DEF Init, AcknowledgedChangesSurvive
<1>2. SafeInv /\ SafeInv' /\ AcknowledgedChangesSurvive /\ [Next]_vars => AcknowledgedChangesSurvive'
  BY OrdersStep
<1> QED BY <1>1, <1>2, Safety, PTL DEF Spec

----------------------------------------------------------------------------
(* The pauses between resends.                                             *)

\* The invariant of the pauses.
PausesInv == RowCountsResends /\ CooldownLadder

\* A step that neither sends a code again nor touches what the row knows of it.
LEMMA ResendsStay ==
  ASSUME SafeInv', PausesInv, resends' = resends, (row = NoRow) = (row' = NoRow),
         ~raced' => /\ ~raced
                    /\ row # NoRow => row'.count = row.count /\ row'.last = row.last
  PROVE  PausesInv'
BY DEF PausesInv, RowCountsResends, CooldownLadder, getOTPResendCooldown, SafeInv, Stored

LEMMA ResendPauses ==
  ASSUME SafeInv, SafeInv', PausesInv, NEW p \in Workers, UpdateOTPWithResend(p)
  PROVE  PausesInv'
<1>1. /\ pc[p] = "resend" /\ row \in User /\ row' \in User /\ row # NoRow /\ row' # NoRow
      /\ job[p] \in Job /\ now' = now
  BY CodeEffect, RowsAndJobs DEF UpdateOTPWithResend
<1>2. (raced => raced')
      /\ (~raced' => job[p].row.count = row.count /\ job[p].row.last = row.last)
  BY CodeEffect
<1>3. CASE row.deleted
  <2>1. row' = row /\ resends' = resends
    BY <1>3, CodeEffect
  <2> QED BY <1>1, <1>2, <2>1, ResendsStay
<1>4. CASE ~row.deleted
  <2>1. /\ row'.count = job[p].row.count + 1 /\ row'.last = now
        /\ resends' = Append(resends, now)
    BY <1>4, CodeEffect
  <2>2. resends \in Seq(Time) /\ now \in Time /\ now \in Nat
    BY DEF SafeInv, TypeOK, Time
  <2>3. RowCountsResends'
    <3> SUFFICES ASSUME ~raced'
                 PROVE  row'.count = Len(resends') /\ row'.last = resends'[Len(resends')]
      BY <1>1 DEF RowCountsResends
    <3>1. row.count = Len(resends)
      BY <1>1, <1>2 DEF PausesInv, RowCountsResends
    <3> QED BY <1>2, <2>1, <2>2, <3>1, AppendGrows
  <2>4. ASSUME ~raced', NEW n \in 1..(Len(resends') - 1)
        PROVE  resends'[n + 1] >= resends'[n] + getOTPResendCooldown(n)
    <3>1. Len(resends') = Len(resends) + 1 /\ Len(resends) \in Nat /\ n \in 1..Len(resends)
      BY <2>1, <2>2, <2>4
    <3>2. resends'[n] = resends[n]
      BY <2>1, <2>2, <3>1
    <3>3. CASE n < Len(resends)
      <4>1. resends'[n + 1] = resends[n + 1] /\ n \in 1..(Len(resends) - 1)
        BY <2>1, <2>2, <3>1, <3>3
      <4> QED BY <1>2, <2>4, <3>2, <4>1 DEF PausesInv, CooldownLadder
    <3>4. CASE n = Len(resends)
      <4>1. resends'[n + 1] = now
        BY <2>1, <2>2, <3>4
      <4>2. row.count = n /\ row.last = resends[n]
        BY <1>1, <1>2, <2>4, <3>1, <3>4 DEF PausesInv, RowCountsResends
      <4>3. CanResend(job[p].row)
        BY <1>1 DEF SafeInv, WorkerOK
      <4>4. row.last # 0
        BY <1>1, <3>1, <4>2 DEF SafeInv, Stored
      <4>5. now >= row.last + getOTPResendCooldown(row.count)
        BY <1>2, <2>4, <4>3, <4>4 DEF CanResend
      <4> QED BY <3>2, <4>1, <4>2, <4>5
    <3> QED BY <3>1, <3>3, <3>4
  <2>5. CooldownLadder'
    BY <2>4 DEF CooldownLadder, getOTPResendCooldown, SafeInv, Stored
  <2> QED BY <2>3, <2>5 DEF PausesInv
<1> QED BY <1>3, <1>4

LEMMA PausesStep ==
  ASSUME SafeInv, SafeInv', PausesInv, [Next]_vars
  PROVE  PausesInv'
<1>1. CASE Tick \/ UNCHANGED vars
  <2>1. UNCHANGED <<row, resends, raced>>
    BY <1>1 DEF Tick, vars, history
  <2> QED BY <2>1, ResendsStay
<1>2. ASSUME NEW p \in Workers, Begin(p) \/ Serve(p) \/ Abort(p)
      PROVE  PausesInv'
  <2>1. CASE \/ Begin(p) \/ Find(p) \/ FindGoogle(p) \/ Guard(p) \/ Match(p) \/ Abort(p)
             \/ (Insert(p) /\ row # NoRow)
    <3>1. UNCHANGED <<row, resends, raced>>
      BY <2>1, ReadEffect
    <3> QED BY <3>1, ResendsStay
  <2>2. CASE Insert(p) /\ row = NoRow
    <3>1. row' # NoRow /\ row'.count = 0 /\ row'.last = 0 /\ resends' = resends /\ raced' = raced
      BY <2>2, InsertEffect
    <3>2. ~raced => resends = <<>> /\ Len(resends) = 0
      BY <2>2 DEF PausesInv, RowCountsResends
    <3>3. RowCountsResends'
      BY <3>1, <3>2 DEF RowCountsResends
    <3>4. CooldownLadder'
      BY <3>1, <3>2 DEF CooldownLadder
    <3> QED BY <3>3, <3>4 DEF PausesInv
  <2>3. CASE UpdateOTP(p)
    <3>1. /\ row # NoRow /\ row' # NoRow /\ row'.count = row.count /\ row'.last = row.last
          /\ UNCHANGED <<resends, raced>>
      BY <2>3, CodeEffect, RowsAndJobs
    <3> QED BY <3>1, ResendsStay
  <2>4. CASE UpdateOTPWithResend(p)
    BY <2>4, ResendPauses
  <2>5. CASE Save(p)
    <3>1. /\ row # NoRow /\ row' # NoRow /\ resends' = resends
          /\ ~raced' => ~raced /\ row'.count = row.count /\ row'.last = row.last
      BY <2>5, SaveEffect, RowsAndJobs
    <3> QED BY <3>1, ResendsStay
  <2>6. CASE UpdatePassword(p) \/ Delete(p) \/ Ban(p) \/ Unban(p) \/ SetRole(p)
    <3>1. /\ row # NoRow /\ row' # NoRow /\ resends' = resends /\ (raced => raced')
          /\ row'.count = row.count /\ row'.last = row.last
      BY <2>6, ColumnEffect, RowsAndJobs DEF Same
    <3> QED BY <3>1, ResendsStay
  <2> QED BY <1>2, <2>1, <2>2, <2>3, <2>4, <2>5, <2>6 DEF Serve
<1> QED BY <1>1, <1>2 DEF Next

\* The pauses between resends grow as the table says, whichever form asks, unless
\* requests overlap; and a row has a count exactly when it has a last resend.
THEOREM PausesGrow == Spec => []CooldownLadder
<1>1. Init => PausesInv
  BY DEF Init, PausesInv, RowCountsResends, CooldownLadder
<1>2. SafeInv /\ SafeInv' /\ PausesInv /\ [Next]_vars => PausesInv'
  BY PausesStep
<1>3. PausesInv => CooldownLadder
  BY DEF PausesInv
<1> QED BY <1>1, <1>2, <1>3, Safety, PTL DEF Spec

----------------------------------------------------------------------------
(* Codes.                                                                  *)

\* The invariant of the codes.
CodesInv == CodesAreFresh /\ CodesAreRedeemedOnce

\* A step that redeems no code and writes none into the row, while no worker comes to
\* have one to write.
LEMMA CodesStay ==
  ASSUME SafeInv, CodesInv, DOMAIN drawn \subseteq DOMAIN drawn', redeemed' = redeemed,
         ~raced' => ~raced,
         ~raced' /\ row' # NoRow /\ row'.otp # 0 => row # NoRow /\ row'.otp = row.otp,
         \A q \in Workers : pc'[q] \in {"insert", "otp", "resend"} =>
                              pc'[q] = pc[q] /\ job'[q] = job[q]
  PROVE  CodesInv'
<1>1. \A q \in Workers : Pending(q)' => Pending(q) /\ job'[q] = job[q]
  BY DEF Pending
<1>2. \A n \in DOMAIN redeemed : redeemed[n] \in DOMAIN drawn'
  BY DEF CodesInv, CodesAreFresh
<1>3. \A p, q \in Workers : Pending(p)' /\ Pending(q)' /\ p # q => job'[p].code # job'[q].code
  BY <1>1 DEF CodesInv, CodesAreFresh
<1>4. ASSUME ~raced'
      PROVE  /\ row' # NoRow /\ row'.otp # 0 => Unredeemed(row.otp) /\ row'.otp = row.otp
             /\ \A q \in Workers : Pending(q)' =>
                  Unredeemed(job[q].code) /\ (row' # NoRow => row'.otp # job'[q].code)
  <2>1. row' # NoRow /\ row'.otp # 0 => Unredeemed(row.otp) /\ row'.otp = row.otp
    BY <1>4 DEF CodesInv, CodesAreFresh
  <2>2. ASSUME NEW q \in Workers, Pending(q)'
        PROVE  Unredeemed(job[q].code) /\ (row' # NoRow => row'.otp # job'[q].code)
    <3>1. Pending(q) /\ job'[q] = job[q] /\ job[q].code # 0
      BY <1>1, <2>2 DEF Pending
    <3> QED BY <1>4, <3>1 DEF CodesInv, CodesAreFresh
  <2> QED BY <2>1, <2>2
<1>5. CodesAreFresh'
  <2>1. ~raced' => /\ row' # NoRow /\ row'.otp # 0 => Unredeemed(row.otp)' /\ row'.otp = row.otp
                   /\ \A q \in Workers : Pending(q)' =>
                        (\A n \in DOMAIN redeemed' : redeemed'[n] # job'[q].code)
                        /\ (row' # NoRow => row'.otp # job'[q].code)
    BY <1>1, <1>4 DEF Unredeemed
  <2> QED BY <1>2, <1>3, <2>1 DEF CodesAreFresh, Unredeemed
<1>6. CodesAreRedeemedOnce'
  BY DEF CodesInv, CodesAreRedeemedOnce
<1> QED BY <1>5, <1>6 DEF CodesInv

\* Whatever a worker is about to write was drawn.
LEMMA PendingDrawn ==
  ASSUME SafeInv, NEW q \in Workers, Pending(q)
  PROVE  job[q].code \in DOMAIN drawn
BY DEF SafeInv, WorkerOK, Pending, CodeOK

\* A code that is drawn is nobody else's and was never redeemed.
LEMMA FindCodes ==
  ASSUME SafeInv, SafeInv', CodesInv, NEW p \in Workers, Find(p)
  PROVE  CodesInv'
<1>1. UNCHANGED <<row, redeemed, raced>>
  BY DEF Find
<1>2. PICK r \in {Found} \cup (IF Faults /\ job[p].op \in {"register", "google"} THEN {NoRow} ELSE {}) :
        LET a == AfterFind(job[p], r)
            draws == a \in {"otp", "resend"} \/ (a = "insert" /\ job[p].op = "register") IN
        /\ drawn' = IF draws THEN Append(drawn, now) ELSE drawn
        /\ tokens' = (tokens \/ a = "token")
        /\ GoTo(p, [job[p] EXCEPT !.row  = r,
                                  !.code = IF draws THEN Len(drawn) + 1 ELSE @,
                                  !.due  = IF draws THEN now + Valid
                                           ELSE IF a = "ban" THEN now + @ ELSE @],
                IF a = "token" THEN "idle" ELSE a)
  BY DEF Find
<1> DEFINE a == AfterFind(job[p], r)
           draws == a \in {"otp", "resend"} \/ (a = "insert" /\ job[p].op = "register")
           k == [job[p] EXCEPT !.row  = r,
                               !.code = IF draws THEN Len(drawn) + 1 ELSE @,
                               !.due  = IF draws THEN now + Valid
                                        ELSE IF a = "ban" THEN now + @ ELSE @]
<1>7. a = "insert" => job[p].op \in {"register", "google"}
  <2>1. job[p] \in Job /\ Reaches(job[p].op, "find") /\ r \in User \cup {NoRow}
    BY <1>2, FoundFacts DEF Find, SafeInv, TypeOK, WorkerOK
  <2>2. a = "insert" => Reaches(job[p].op, "insert")
    BY <2>1, AfterFindFacts
  <2> QED BY <2>2 DEF Reaches
<1>8. /\ drawn' = (IF draws THEN Append(drawn, now) ELSE drawn)
      /\ tokens' = (tokens \/ a = "token")
      /\ GoTo(p, k, IF a = "token" THEN "idle" ELSE a)
  BY <1>2
<1>9. k.code = IF draws THEN Len(drawn) + 1 ELSE job[p].code
  <2>1. job[p] \in Job
    BY DEF Find, SafeInv, TypeOK
  <2> QED BY <2>1 DEF Job
<1>10. draws <=> a \in {"otp", "resend"} \/ (a = "insert" /\ job[p].op = "register")
  OBVIOUS
<1> HIDE DEF a, draws, k
<1>3. /\ pc'[p] = (IF a = "token" THEN "idle" ELSE a) /\ (pc'[p] # "idle" => job'[p] = k)
      /\ \A q \in Workers \ {p} : pc'[q] = pc[q] /\ job'[q] = job[q]
      /\ now' = now
  BY <1>8 DEF GoTo, SafeInv, TypeOK
<1>4. drawn \in Seq(Time) /\ now \in Time /\ now \in Nat /\ job[p] \in Job /\ pc[p] = "find"
  BY DEF Find, SafeInv, TypeOK, Time
<1>5. CASE ~draws
  <2>1. drawn' = drawn
    BY <1>5, <1>8
  <2>2. k.code = job[p].code
    BY <1>5, <1>9
  <2>3. pc'[p] = "insert" => k.code = 0
    BY <1>3, <1>4, <1>5, <1>7, <1>10, <2>2 DEF SafeInv, WorkerOK
  <2>4. ~Pending(p)'
    BY <1>3, <1>5, <1>10, <2>3 DEF Pending
  <2>5. \A q \in Workers : Pending(q)' => q # p /\ Pending(q) /\ job'[q] = job[q]
    BY <1>3, <2>4 DEF Pending
  <2>6. CodesAreFresh'
    <3>1. \A n \in DOMAIN redeemed' : redeemed'[n] \in DOMAIN drawn'
      BY <1>1, <2>1 DEF CodesInv, CodesAreFresh
    <3>2. \A x, q \in Workers : Pending(x)' /\ Pending(q)' /\ x # q => job'[x].code # job'[q].code
      BY <2>5 DEF CodesInv, CodesAreFresh
    <3>3. ~raced' => /\ row' # NoRow /\ row'.otp # 0 => Unredeemed(row.otp)'
                     /\ \A q \in Workers : Pending(q)' =>
                          (\A n \in DOMAIN redeemed' : redeemed'[n] # job'[q].code)
                          /\ (row' # NoRow => row'.otp # job'[q].code)
      BY <1>1, <2>5 DEF CodesInv, CodesAreFresh, Unredeemed
    <3> QED BY <3>1, <3>2, <3>3 DEF CodesAreFresh, Unredeemed
  <2> QED BY <1>1, <2>6 DEF CodesInv, CodesAreRedeemedOnce
<1>6. CASE draws
  <2> DEFINE n == Len(drawn) + 1
  <2>1. n \notin DOMAIN drawn /\ n \in Nat /\ n # 0
        /\ \A x \in DOMAIN drawn : x \in DOMAIN drawn'
    BY <1>4, <1>6, <1>8, AppendGrows
  <2>2. k.code = n
    BY <1>6, <1>9
  <2>3. Pending(p)' => job'[p].code = n
    BY <1>3, <2>2 DEF Pending
  <2> HIDE DEF n
  <2>4. \A q \in Workers : Pending(q)' /\ q # p =>
          Pending(q) /\ job'[q] = job[q] /\ job'[q].code \in DOMAIN drawn
    BY <1>3, PendingDrawn DEF Pending
  <2>5. Unredeemed(n) /\ (row # NoRow => row.otp # n)
    <3>1. row # NoRow => row.otp = 0 \/ row.otp \in DOMAIN drawn
      BY DEF SafeInv, Stored, CodeOK
    <3> QED BY <2>1, <3>1 DEF CodesInv, CodesAreFresh, Unredeemed
  <2>6. CodesAreFresh'
    <3>1. \A x \in DOMAIN redeemed' : redeemed'[x] \in DOMAIN drawn'
      BY <1>1, <2>1 DEF CodesInv, CodesAreFresh
    <3>2. \A x, q \in Workers : Pending(x)' /\ Pending(q)' /\ x # q => job'[x].code # job'[q].code
      BY <2>1, <2>3, <2>4 DEF CodesInv, CodesAreFresh
    <3>3. ~raced' => /\ row' # NoRow /\ row'.otp # 0 => Unredeemed(row.otp)'
                     /\ \A q \in Workers : Pending(q)' =>
                          (\A x \in DOMAIN redeemed' : redeemed'[x] # job'[q].code)
                          /\ (row' # NoRow => row'.otp # job'[q].code)
      BY <1>1, <2>3, <2>4, <2>5 DEF CodesInv, CodesAreFresh, Unredeemed
    <3> QED BY <3>1, <3>2, <3>3 DEF CodesAreFresh, Unredeemed
  <2> QED BY <1>1, <2>6 DEF CodesInv, CodesAreRedeemedOnce
<1> QED BY <1>5, <1>6

\* A code that is written was not redeemed, and nobody else is about to write it.
LEMMA WriteCodes ==
  ASSUME SafeInv, SafeInv', CodesInv, NEW p \in Workers,
         pc[p] \in {"insert", "otp", "resend"}, GoTo(p, job[p], "idle"),
         row' # NoRow, row' = row \/ row'.otp = job[p].code,
         UNCHANGED <<drawn, redeemed>>, raced => raced'
  PROVE  CodesInv'
<1>1. /\ pc'[p] = "idle"
      /\ \A q \in Workers \ {p} : pc'[q] = pc[q] /\ job'[q] = job[q]
  BY DEF GoTo, SafeInv, TypeOK
<1>2. \A q \in Workers : Pending(q)' => q # p /\ Pending(q) /\ job'[q] = job[q]
  BY <1>1 DEF Pending
<1>3. ASSUME ~raced'
      PROVE  /\ row'.otp # 0 => Unredeemed(row'.otp)
             /\ \A q \in Workers : Pending(q)' => row'.otp # job'[q].code
  <2>1. CASE row' = row
    BY <1>2, <1>3, <2>1 DEF CodesInv, CodesAreFresh
  <2>2. CASE row'.otp = job[p].code
    <3>1. row'.otp # 0 => Pending(p)
      BY <2>2 DEF Pending
    <3>2. row'.otp # 0 => Unredeemed(row'.otp)
      BY <1>3, <2>2, <3>1 DEF CodesInv, CodesAreFresh
    <3>3. \A q \in Workers : Pending(q)' => row'.otp # job'[q].code
      BY <1>2, <2>2, <3>1 DEF CodesInv, CodesAreFresh, Pending
    <3> QED BY <3>2, <3>3
  <2> QED BY <2>1, <2>2
<1>4. CodesAreFresh'
  <2>1. \A x \in DOMAIN redeemed' : redeemed'[x] \in DOMAIN drawn'
    BY DEF CodesInv, CodesAreFresh
  <2>2. \A x, q \in Workers : Pending(x)' /\ Pending(q)' /\ x # q => job'[x].code # job'[q].code
    BY <1>2 DEF CodesInv, CodesAreFresh
  <2>3. ~raced' => /\ row' # NoRow /\ row'.otp # 0 => Unredeemed(row.otp)'
                   /\ \A q \in Workers : Pending(q)' =>
                        (\A x \in DOMAIN redeemed' : redeemed'[x] # job'[q].code)
                        /\ (row' # NoRow => row'.otp # job'[q].code)
    BY <1>2, <1>3 DEF CodesInv, CodesAreFresh, Unredeemed
  <2> QED BY <2>1, <2>2, <2>3 DEF CodesAreFresh, Unredeemed
<1> QED BY <1>4 DEF CodesInv, CodesAreRedeemedOnce

\* A code that verifies the address leaves the row, so that it does not come back unless
\* requests overlap.
LEMMA SaveCodes ==
  ASSUME SafeInv, SafeInv', CodesInv, NEW p \in Workers, Save(p)
  PROVE  CodesInv'
<1>1. /\ job[p] \in Job /\ row' \in User /\ row \in User /\ row # NoRow /\ row' # NoRow
      /\ UNCHANGED <<drawn, now>> /\ (raced => raced')
  BY SaveEffect, RowsAndJobs
<1>2. PICK c \in {"idle", "password"} : GoTo(p, job[p], c)
  BY SaveEffect
<1>3. pc'[p] = c /\ \A q \in Workers \ {p} : pc'[q] = pc[q] /\ job'[q] = job[q]
  BY <1>2 DEF GoTo, SafeInv, TypeOK
<1>4. \A q \in Workers : Pending(q)' => Pending(q) /\ job'[q] = job[q]
  BY <1>3 DEF Pending
<1>5. CASE job[p].op = "email"
  <2>1. redeemed' = redeemed /\ (~raced' => ~raced /\ row'.otp = row.otp)
    BY <1>5, SaveEffect
  <2>2. \A q \in Workers : pc'[q] \in {"insert", "otp", "resend"} =>
                             pc'[q] = pc[q] /\ job'[q] = job[q]
    BY <1>3
  <2> QED BY <1>1, <2>1, <2>2, CodesStay
<1>6. CASE job[p].op # "email"
  <2> DEFINE e == job[p].code
  <2>1. /\ redeemed' = Append(redeemed, e) /\ row'.otp = 0 /\ e # 0 /\ e \in DOMAIN drawn
        /\ ~raced' => ~raced /\ row.otp = e
    BY <1>6, SaveEffect
  <2>2. redeemed \in Seq(Nat) /\ e \in Nat
    BY <1>1 DEF SafeInv, TypeOK, Job
  <2> HIDE DEF e
  <2>3. \A n \in DOMAIN redeemed' :
          \/ n \in DOMAIN redeemed /\ redeemed'[n] = redeemed[n]
          \/ n = Len(redeemed) + 1 /\ redeemed'[n] = e
    BY <2>1, <2>2
  <2>4. ~raced' => Unredeemed(e)
    BY <1>1, <2>1 DEF CodesInv, CodesAreFresh
  <2>5. CodesAreRedeemedOnce'
    <3> SUFFICES ASSUME ~raced', NEW m \in DOMAIN redeemed', NEW n \in DOMAIN redeemed', m # n
                 PROVE  redeemed'[m] # redeemed'[n]
      BY DEF CodesAreRedeemedOnce
    <3> QED BY <2>1, <2>3, <2>4 DEF CodesInv, CodesAreRedeemedOnce, Unredeemed
  <2>6. CodesAreFresh'
    <3>1. \A x \in DOMAIN redeemed' : redeemed'[x] \in DOMAIN drawn'
      BY <1>1, <2>1, <2>3 DEF CodesInv, CodesAreFresh
    <3>2. \A x, q \in Workers : Pending(x)' /\ Pending(q)' /\ x # q => job'[x].code # job'[q].code
      BY <1>4 DEF CodesInv, CodesAreFresh
    <3>3. ASSUME ~raced', NEW q \in Workers, Pending(q)'
          PROVE  /\ \A x \in DOMAIN redeemed' : redeemed'[x] # job'[q].code
                 /\ row'.otp # job'[q].code
      <4>1. Pending(q) /\ job'[q] = job[q] /\ job[q].code # 0
        BY <1>4, <3>3 DEF Pending
      <4>2. Unredeemed(job[q].code) /\ row.otp # job[q].code
        BY <1>1, <2>1, <3>3, <4>1 DEF CodesInv, CodesAreFresh
      <4> QED BY <2>1, <2>3, <3>3, <4>1, <4>2 DEF Unredeemed
    <3> QED BY <2>1, <3>1, <3>2, <3>3 DEF CodesAreFresh, Unredeemed
  <2> QED BY <2>5, <2>6 DEF CodesInv
<1> QED BY <1>5, <1>6

\* Nothing else writes a code.
LEMMA OtherCodes ==
  ASSUME SafeInv, SafeInv', CodesInv, NEW p \in Workers,
         \/ Begin(p) \/ FindGoogle(p) \/ Guard(p) \/ Match(p) \/ Abort(p)
         \/ (Insert(p) /\ row # NoRow)
         \/ UpdatePassword(p) \/ Delete(p) \/ Ban(p) \/ Unban(p) \/ SetRole(p)
  PROVE  CodesInv'
<1>1. redeemed' = redeemed /\ (~raced' => ~raced)
      /\ (row' # NoRow /\ row'.otp # 0 => row # NoRow /\ row'.otp = row.otp)
      /\ (row # NoRow => row' # NoRow)
  <2>1. CASE UpdatePassword(p) \/ Delete(p) \/ Ban(p) \/ Unban(p) \/ SetRole(p)
    BY <2>1, ColumnEffect, RowsAndJobs DEF Same
  <2>2. CASE ~(UpdatePassword(p) \/ Delete(p) \/ Ban(p) \/ Unban(p) \/ SetRole(p))
    BY <2>2, ReadEffect
  <2> QED BY <2>1, <2>2
<1>2. PICK c, k : /\ c \notin {"insert", "otp", "resend"}
                  /\ pc' = [pc EXCEPT ![p] = c] /\ job' = [job EXCEPT ![p] = k]
                  /\ drawn' = drawn /\ now' = now
  <2>1. CASE Begin(p)
    <3>1. \E op, code, due, r, c : /\ c \notin {"insert", "otp", "resend"}
                                   /\ Take(p, op, code, due, r, c)
      BY <2>1 DEF Begin, Register, Login, GoogleOAuth, ResendOTP, RequestResetPassword, VerifyOTP,
         VerifyResetPassword, VerifyEmail, RefreshToken, DeleteAccount, Call, BanUser, UnbanUser,
         UpdateUserRole, Ask
    <3> QED BY <3>1 DEF Take, history
  <2>2. CASE ~Begin(p)
    <3>1. PICK c, k : c \in {"idle", "find", "lift", "save"} /\ GoTo(p, k, c)
      <4>1. CASE FindGoogle(p)
        BY <4>1 DEF FindGoogle
      <4>2. CASE Guard(p)
        <5>1. \A j, r : AfterGuard(j, r) \in {"idle", "find", "lift"}
          BY DEF AfterGuard
        <5> QED BY <4>2, <5>1 DEF Guard
      <4>3. CASE Match(p)
        BY <4>3 DEF Match
      <4>4. CASE Abort(p) \/ Insert(p)
        BY <4>4 DEF Abort, Insert
      <4>5. CASE UpdatePassword(p) \/ Delete(p) \/ Ban(p) \/ Unban(p) \/ SetRole(p)
        BY <4>5, ColumnEffect
      <4> QED BY <2>2, <4>1, <4>2, <4>3, <4>4, <4>5
    <3>2. drawn' = drawn
      BY <2>2 DEF FindGoogle, Guard, Match, Abort, Insert, UpdatePassword, Delete, Ban, Unban,
                  SetRole, history
    <3> QED BY <3>1, <3>2 DEF GoTo
  <2> QED BY <2>1, <2>2
<1>3. pc'[p] = c /\ \A q \in Workers \ {p} : pc'[q] = pc[q] /\ job'[q] = job[q]
  BY <1>2 DEF SafeInv, TypeOK
<1>4. \A q \in Workers : pc'[q] \in {"insert", "otp", "resend"} => pc'[q] = pc[q] /\ job'[q] = job[q]
  BY <1>2, <1>3
<1> QED BY <1>1, <1>2, <1>4, CodesStay

LEMMA CodesStep ==
  ASSUME SafeInv, SafeInv', CodesInv, [Next]_vars
  PROVE  CodesInv'
<1>1. CASE Tick \/ UNCHANGED vars
  <2>1. /\ UNCHANGED <<row, pc, job, drawn, redeemed, tokens, proved, raced>>
        /\ now <= now'
    BY <1>1 DEF Tick, vars, history, SafeInv, TypeOK, Time
  <2> QED BY <2>1, CodesStay
<1>2. ASSUME NEW p \in Workers, Begin(p) \/ Serve(p) \/ Abort(p)
      PROVE  CodesInv'
  <2>1. CASE Find(p)
    BY <2>1, FindCodes
  <2>2. CASE Insert(p) /\ row = NoRow
    <3>1. /\ pc[p] = "insert" /\ GoTo(p, job[p], "idle") /\ row' # NoRow
          /\ row'.otp = job[p].code /\ UNCHANGED <<drawn, redeemed, raced>>
      BY <2>2, InsertEffect
    <3> QED BY <3>1, WriteCodes
  <2>3. CASE UpdateOTP(p) \/ UpdateOTPWithResend(p)
    <3>1. /\ pc[p] \in {"otp", "resend"} /\ GoTo(p, job[p], "idle") /\ row' # NoRow
          /\ row' = row \/ row'.otp = job[p].code
          /\ UNCHANGED <<drawn, redeemed>> /\ (raced => raced')
      BY <2>3, CodeEffect, RowsAndJobs
    <3> QED BY <3>1, WriteCodes
  <2>4. CASE Save(p)
    BY <2>4, SaveCodes
  <2> QED BY <1>2, <2>1, <2>2, <2>3, <2>4, OtherCodes DEF Serve
<1> QED BY <1>1, <1>2 DEF Next

\* A code ends with its own time, also one that a late write brought back, and none
\* verifies the address twice unless two requests overlap.
THEOREM CodesWorkOnce == Spec => []CodesAreSound
<1>1. Init => CodesInv
  BY DEF Init, CodesInv, CodesAreFresh, CodesAreRedeemedOnce, Pending
<1>2. SafeInv /\ SafeInv' /\ CodesInv /\ [Next]_vars => CodesInv'
  BY CodesStep
<1>3. SafeInv /\ CodesInv => CodesAreSound
  BY DEF SafeInv, Stored, CodeOK, CodesInv, CodesAreSound, CodesExpireOnTime
<1> QED BY <1>1, <1>2, <1>3, Safety, PTL DEF Spec
=============================================================================
