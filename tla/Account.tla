------------------------------ MODULE Account ------------------------------
(***************************************************************************)
(* One email address and its row of the users table: registration, the     *)
(* one-time codes (OTP) and their cooldown, verification, password reset,  *)
(* bans, roles and deletion.                                               *)
(*                                                                         *)
(* A worker p is the goroutine of one HTTP request.  No handler uses a     *)
(* transaction, so each statement is an action.  Most statements write a   *)
(* few columns; VerifyOTP and VerifyEmail read the row and write all of it *)
(* back (db.Save), and the middleware that lifts an expired ban decides on *)
(* a row it read before.                                                   *)
(*                                                                         *)
(* A code is named by the number of codes drawn before it (0: none); the   *)
(* password of the registration is 0 and one set with code c is c.         *)
(* Requests with a wrong code or password change nothing and are left out, *)
(* as are is_active and reset_token, which no statement ever sets.         *)
(***************************************************************************)
EXTENDS Naturals, Sequences

CONSTANTS
  Workers,    \* concurrently running HTTP requests
  Budget,     \* number of requests served in all
  MaxTime,    \* the clock stops here
  Valid,      \* how long a code is valid (10 minutes)
  Cooldown,   \* pause after the 1st, 2nd, 3rd and every later resend
  BanLengths, \* durations the owner may choose for a ban
  Faults,     \* TRUE: statements and the process itself may fail
  NoRow       \* an absent row, and what an idle worker holds

Time == 0..MaxTime
Role == {"member", "owner"}
Op   == {"register", "login", "google", "verify", "resend", "forgot", "again", "reset",
         "email", "refresh", "delete", "call", "ban", "unban", "role"}

\* last is 0 as long as nothing was sent again, until 0 without a ban.
User == [login : {"credential", "google"}, verified : BOOLEAN, otp : Nat, expires : Nat,
         count : Nat, last : Nat, until : Nat, role : Role, password : Nat, deleted : BOOLEAN]

\* A request: the code it presents or draws, when that code or a ban ends, the
\* role it sets, and the row as it was read.
Job == [op : Op, code : Nat, due : Nat, role : Role, row : User \cup {NoRow}]

\* What the last ban, role, password and deletion said.
Orders == [until : Nat, role : Role, password : Nat, deleted : BOOLEAN]

ASSUME AccountAssumption ==
  /\ Budget \in Nat
  /\ MaxTime \in Nat \ {0}
  /\ Valid \in Nat
  /\ Cooldown \in [1..4 -> Nat]
  /\ BanLengths \subseteq Nat \ {0}
  /\ Faults \in BOOLEAN
  /\ NoRow \notin User \cup Job \cup Orders

VARIABLES
  row,        \* the row of the address
  now,        \* the clock
  pc,         \* control point of each worker
  job,        \* the request a worker serves
  left,       \* requests that may still arrive
  drawn,      \* history: when each code was drawn
  resends,    \* history: when a code was sent again
  redeemed,   \* history: the codes that verified the address, in this order
  tokens,     \* history: whether anybody ever got a token for the row
  proved,     \* history: whether a code mailed to the address was ever found right
  orders,     \* history: the ban, role, password and deletion last acknowledged
  raced       \* history: whether a request ever wrote what it had read too early

vars == <<row, now, pc, job, left, drawn, resends, redeemed, tokens, proved, orders, raced>>

Control == {"idle", "guard", "lift", "find", "google", "insert", "otp", "resend", "match",
            "save", "password", "delete", "ban", "role"}

TypeOK ==
  /\ row \in User \cup {NoRow}
  /\ now \in Time
  /\ pc \in [Workers -> Control]
  /\ job \in [Workers -> Job \cup {NoRow}]
  /\ \A p \in Workers : pc[p] # "idle" => job[p] \in Job
  /\ \A p \in Workers : pc[p] \in {"otp", "resend", "save", "password", "delete", "ban", "role"} =>
       job[p].row # NoRow /\ row # NoRow
  /\ left \in 0..Budget
  /\ drawn \in Seq(Time)
  /\ resends \in Seq(Time)
  /\ redeemed \in Seq(Nat)
  /\ tokens \in BOOLEAN /\ proved \in BOOLEAN /\ raced \in BOOLEAN
  /\ orders \in Orders \cup {NoRow}
  /\ row # NoRow => orders # NoRow

Init ==
  /\ row = NoRow
  /\ now = 1
  /\ pc = [p \in Workers |-> "idle"]
  /\ job = [p \in Workers |-> NoRow]
  /\ left = Budget
  /\ drawn = <<>>
  /\ resends = <<>>
  /\ redeemed = <<>>
  /\ tokens = FALSE /\ proved = FALSE /\ raced = FALSE
  /\ orders = NoRow

----------------------------------------------------------------------------
(* Helpers.                                                                *)

history == <<drawn, resends, redeemed, tokens, proved, orders, raced>>

Request(op, code, due, role) ==
  [op |-> op, code |-> code, due |-> due, role |-> role, row |-> NoRow]

\* A request arrives and starts at control point c.
Take(p, op, code, due, role, c) ==
  /\ pc[p] = "idle"
  /\ left > 0
  /\ left' = left - 1
  /\ pc' = [pc EXCEPT ![p] = c]
  /\ job' = [job EXCEPT ![p] = Request(op, code, due, role)]
  /\ UNCHANGED <<row, now, history>>

\* A request that brings neither a code nor the end of a ban nor a role.
Ask(p, op, c) == Take(p, op, 0, 0, "member", c)

\* Worker p goes on at c, holding j; an idle worker holds nothing.
GoTo(p, j, c) ==
  /\ pc' = [pc EXCEPT ![p] = c]
  /\ job' = [job EXCEPT ![p] = IF c = "idle" THEN NoRow ELSE j]
  /\ UNCHANGED <<left, now>>

\* What a SELECT finds: not a row that was deleted softly.
Found == IF row # NoRow /\ row.deleted THEN NoRow ELSE row
FoundByGoogle == Found # NoRow /\ Found.login = "google"

getOTPResendCooldown(n) == IF n \in 1..3 THEN Cooldown[n] ELSE Cooldown[4]

\* Wrong on purpose: no pause.
CanResend_Always(r) == TRUE

\* The pause after the last resend is over.
CanResend(r) == r.last = 0 \/ now >= r.last + getOTPResendCooldown(r.count)

\* The row Register and GoogleOAuth insert.
NewUser(j) ==
  [login |-> IF j.op = "google" THEN "google" ELSE "credential", verified |-> j.op = "google",
   otp |-> j.code, expires |-> j.due, count |-> 0, last |-> 0, until |-> 0,
   role |-> j.role, password |-> 0, deleted |-> FALSE]

\* Wrong on purpose: a deletion removes the row.
Update_Hard(r) == row' = IF r.deleted THEN NoRow ELSE r

\* UPDATE ... WHERE deleted_at IS NULL: no row is not an error.
Update(r) == row' = IF row.deleted THEN row ELSE r

----------------------------------------------------------------------------
(* A request arrives.                                                      *)

\* The user type is taken from the request.
Register(p) == \E r \in Role : Take(p, "register", 0, 0, r, "find")

Login(p)           == Ask(p, "login", "find")
GoogleOAuth(p)     == Ask(p, "google", "google")
ResendOTP(p)       == Ask(p, "resend", "find")

\* is_resend is true on the page that asks for the code.
RequestResetPassword(p) == \E op \in {"forgot", "again"} : Ask(p, op, "find")

\* The code is one that was drawn before.
VerifyOTP(p) ==
  \E c \in DOMAIN drawn : Take(p, "verify", c, 0, "member", "match")
VerifyResetPassword(p) ==
  \E c \in DOMAIN drawn : Take(p, "reset", c, 0, "member", "find")

\* These need a token, and are served while it is valid.
VerifyEmail(p)   == tokens /\ Ask(p, "email", "find")
RefreshToken(p)  == tokens /\ Ask(p, "refresh", "find")
DeleteAccount(p) == tokens /\ Ask(p, "delete", "guard")

\* Any other request that passes the middleware.
Call(p) == tokens /\ Ask(p, "call", "guard")

\* The owner of the site bans, unbans or promotes somebody else.
BanUser(p) ==
  \E d \in BanLengths : Take(p, "ban", 0, d, "member", "find")
UnbanUser(p)      == row # NoRow /\ Ask(p, "unban", "lift")
UpdateUserRole(p) == \E r \in Role : Take(p, "role", 0, 0, r, "find")

----------------------------------------------------------------------------
(* What the handlers read.                                                 *)

\* Wrong on purpose: a login without verification.
AfterFind_Unverified(j, r) ==
  IF r = NoRow THEN IF j.op \in {"register", "google"} THEN "insert" ELSE "idle"
  ELSE IF j.op = "refresh" \/ (j.op = "login" /\ r.login = "credential") THEN "token" ELSE "idle"

\* Where a handler goes once it found r, the row or none.
AfterFind(j, r) ==
  IF r = NoRow THEN IF j.op \in {"register", "google"} THEN "insert" ELSE "idle"
  ELSE
  CASE j.op = "register" -> "idle"
    [] j.op = "google" -> IF r.login = "google" THEN "insert" ELSE "idle"  \* which fails
    [] j.op = "login" -> IF r.login # "credential" THEN "idle"
                         ELSE IF r.verified THEN "token" ELSE "otp"
    [] j.op = "resend" -> IF CanResend(r) THEN "resend" ELSE "idle"
    [] j.op = "again" -> IF r.login = "credential" /\ CanResend(r) THEN "resend" ELSE "idle"
    [] j.op = "forgot" -> IF r.login = "credential" THEN "otp" ELSE "idle"
    [] j.op = "reset" -> IF r.login = "credential" THEN "match" ELSE "idle"
    [] j.op = "email" -> "save"
    [] j.op = "refresh" -> "token"
    [] j.op = "delete" -> "delete"
    [] j.op = "ban" -> IF r.role = "owner" THEN "idle" ELSE "ban"
    [] j.op = "role" -> "role"

\* FindByEmail or FindByID, and what follows up to the next statement.  A code that
\* is needed is drawn, or the end of the ban computed.  Register and GoogleOAuth
\* ignore an error and take it for no row.
Find(p) ==
  LET j == job[p] IN
  /\ pc[p] = "find"
  /\ \E r \in {Found} \cup (IF Faults /\ j.op \in {"register", "google"} THEN {NoRow} ELSE {}) :
       LET c == AfterFind(j, r)
           draws == c \in {"otp", "resend"} \/ (c = "insert" /\ j.op = "register") IN
       /\ drawn' = IF draws THEN Append(drawn, now) ELSE drawn
       /\ tokens' = (tokens \/ c = "token")
       /\ GoTo(p, [j EXCEPT !.row  = r,
                            !.code = IF draws THEN Len(drawn) + 1 ELSE @,
                            !.due  = IF draws THEN now + Valid
                                     ELSE IF c = "ban" THEN now + @ ELSE @],
               IF c = "token" THEN "idle" ELSE c)
  /\ UNCHANGED <<row, resends, redeemed, proved, orders, raced>>

\* FindByGoogleID.  The Google id and the address are what the body of the request
\* says: the id need not be the one in the row, and an error is taken for no row.
FindGoogle(p) ==
  LET j == job[p] IN
  /\ pc[p] = "google"
  /\ \E found \in {FoundByGoogle, FALSE} :
       /\ tokens' = (tokens \/ found)
       /\ GoTo(p, j, IF found THEN "idle" ELSE "find")
  /\ UNCHANGED <<row, drawn, resends, redeemed, proved, orders, raced>>

\* Wrong on purpose: the ban is lifted whenever there is one.
AfterGuard_Lift(j, r) ==
  IF r # NoRow /\ r.until # 0 THEN "lift" ELSE IF j.op = "delete" THEN "find" ELSE "idle"

\* A ban in force ends the request, one that is over is lifted.
AfterGuard(j, r) ==
  IF r = NoRow \/ r.until = 0 THEN IF j.op = "delete" THEN "find" ELSE "idle"
  ELSE IF r.until > now THEN "idle" ELSE "lift"

\* AuthMiddleware reads the row; a request whose row it cannot read goes on.
Guard(p) ==
  LET j == job[p] IN
  /\ pc[p] = "guard"
  /\ \E r \in {Found} \cup (IF Faults THEN {NoRow} ELSE {}) :
       GoTo(p, [j EXCEPT !.row = r], AfterGuard(j, r))
  /\ UNCHANGED <<row, history>>

IsRight(r, c) == r # NoRow /\ r.otp = c /\ r.expires > now

\* The SELECT of VerifyOTP.
Match(p) ==
  LET j == job[p] IN
  /\ pc[p] = "match"
  /\ IF IsRight(Found, j.code)
       THEN proved' = TRUE /\ GoTo(p, [j EXCEPT !.row = Found], "save")
       ELSE UNCHANGED proved /\ GoTo(p, j, "idle")
  /\ UNCHANGED <<row, drawn, resends, redeemed, tokens, orders, raced>>

----------------------------------------------------------------------------
(* What the handlers write.                                                *)

\* db.Create; the index on the email counts deleted rows.
Insert(p) ==
  LET j == job[p] IN
  /\ pc[p] = "insert"
  /\ IF row # NoRow
       THEN UNCHANGED <<row, tokens, orders>>
       ELSE /\ row' = NewUser(j)
            /\ tokens' = (tokens \/ j.op = "google")
            /\ orders' = [until |-> 0, role |-> j.role, password |-> 0, deleted |-> FALSE]
  /\ GoTo(p, j, "idle")
  /\ UNCHANGED <<drawn, resends, redeemed, proved, raced>>

WithCode(r, j) == [r EXCEPT !.otp = j.code, !.expires = j.due]

\* A new code at a login without verification, or for a forgotten password.
UpdateOTP(p) ==
  /\ pc[p] = "otp"
  /\ Update(WithCode(row, job[p]))
  /\ GoTo(p, job[p], "idle")
  /\ UNCHANGED history

\* Sent again: the number of resends is the one that was read, plus one.
UpdateOTPWithResend(p) ==
  LET j == job[p] IN
  /\ pc[p] = "resend"
  /\ Update([WithCode(row, j) EXCEPT !.count = j.row.count + 1, !.last = now])
  /\ resends' = IF row.deleted THEN resends ELSE Append(resends, now)
  /\ raced' = (raced \/ <<row.count, row.last>> # <<j.row.count, j.row.last>>)
  /\ GoTo(p, j, "idle")
  /\ UNCHANGED <<drawn, redeemed, tokens, proved, orders>>

\* Wrong on purpose: the code stays.
Verified_KeepsCode(j) == [j.row EXCEPT !.verified = TRUE]

\* The row VerifyOTP and VerifyEmail write; only the first takes the code away.
Verified(j) == IF j.op = "email" THEN [j.row EXCEPT !.verified = TRUE]
               ELSE [j.row EXCEPT !.verified = TRUE, !.otp = 0, !.expires = 0]

\* db.Save of the row as it was read.  It brings back a row deleted meanwhile.
Save(p) ==
  LET j == job[p] IN
  /\ pc[p] = "save"
  /\ row' = Verified(j)
  /\ raced' = (raced \/ row # j.row)
  /\ redeemed' = IF j.op = "email" THEN redeemed ELSE Append(redeemed, j.code)
  /\ tokens' = (tokens \/ j.op # "reset")
  /\ GoTo(p, j, IF j.op = "reset" THEN "password" ELSE "idle")
  /\ UNCHANGED <<drawn, resends, proved, orders>>

UpdatePassword(p) ==
  LET j == job[p] IN
  /\ pc[p] = "password"
  /\ Update([row EXCEPT !.password = j.code])
  /\ orders' = [orders EXCEPT !.password = j.code]
  /\ GoTo(p, j, "idle")
  /\ UNCHANGED <<drawn, resends, redeemed, tokens, proved, raced>>

Delete(p) ==
  /\ pc[p] = "delete"
  /\ Update([row EXCEPT !.deleted = TRUE])
  /\ orders' = [orders EXCEPT !.deleted = TRUE]
  /\ GoTo(p, job[p], "idle")
  /\ UNCHANGED <<drawn, resends, redeemed, tokens, proved, raced>>

Ban(p) ==
  /\ pc[p] = "ban"
  /\ Update([row EXCEPT !.until = job[p].due])
  /\ orders' = [orders EXCEPT !.until = job[p].due]
  /\ GoTo(p, job[p], "idle")
  /\ UNCHANGED <<drawn, resends, redeemed, tokens, proved, raced>>

\* The same statement for the owner and for the middleware, which then goes on, also
\* when it failed.
Unban(p) ==
  LET j == job[p] IN
  /\ pc[p] = "lift"
  /\ \/ Update([row EXCEPT !.until = 0])
     \/ Faults /\ j.op # "unban" /\ UNCHANGED row
  /\ IF j.op = "unban"
       THEN orders' = [orders EXCEPT !.until = 0] /\ UNCHANGED raced
       ELSE raced' = (raced \/ row.until # j.row.until) /\ UNCHANGED orders
  /\ GoTo(p, j, IF j.op = "delete" THEN "find" ELSE "idle")
  /\ UNCHANGED <<drawn, resends, redeemed, tokens, proved>>

SetRole(p) ==
  /\ pc[p] = "role"
  /\ Update([row EXCEPT !.role = job[p].role])
  /\ orders' = [orders EXCEPT !.role = job[p].role]
  /\ GoTo(p, job[p], "idle")
  /\ UNCHANGED <<drawn, resends, redeemed, tokens, proved, raced>>

\* A statement returns an error, or the process stops: the handler ends where it is.
Abort(p) ==
  /\ Faults
  /\ pc[p] # "idle"
  /\ GoTo(p, job[p], "idle")
  /\ UNCHANGED <<row, history>>

Tick ==
  /\ now < MaxTime
  /\ now' = now + 1
  /\ UNCHANGED <<row, pc, job, left, history>>

----------------------------------------------------------------------------
Begin(p) ==
  \/ Register(p) \/ Login(p) \/ GoogleOAuth(p) \/ ResendOTP(p) \/ RequestResetPassword(p)
  \/ VerifyOTP(p) \/ VerifyResetPassword(p) \/ VerifyEmail(p) \/ RefreshToken(p)
  \/ DeleteAccount(p) \/ Call(p) \/ BanUser(p) \/ UnbanUser(p) \/ UpdateUserRole(p)

Serve(p) ==
  \/ Find(p) \/ FindGoogle(p) \/ Guard(p) \/ Match(p) \/ Insert(p) \/ UpdateOTP(p)
  \/ UpdateOTPWithResend(p) \/ Save(p) \/ UpdatePassword(p) \/ Delete(p) \/ Ban(p)
  \/ Unban(p) \/ SetRole(p)

Next == Tick \/ \E p \in Workers : Begin(p) \/ Serve(p) \/ Abort(p)

Spec == Init /\ [][Next]_vars
----------------------------------------------------------------------------
(* Safety, whatever interleaves and whatever fails.                        *)

\* A ban, a role, a password or a deletion that was acknowledged stays until the
\* next one, unless it fell between the read and the write of a request that
\* writes the whole row back or lifts a ban.  A ban that is over may be lifted.
AcknowledgedChangesSurvive ==
  row # NoRow /\ ~raced =>
    /\ row.deleted = orders.deleted
    /\ ~row.deleted => /\ row.role = orders.role
                       /\ row.password = orders.password
                       /\ row.until # orders.until => row.until = 0 /\ orders.until <= now

\* A code in the row ends when it should, also one that a late write of the whole
\* row brought back.
CodesExpireOnTime ==
  row # NoRow /\ row.otp # 0 => row.expires = drawn[row.otp] + Valid

\* No code verifies the address twice, unless two requests overlap.
CodesAreRedeemedOnce ==
  ~raced => \A m, n \in DOMAIN redeemed : m # n => redeemed[m] # redeemed[n]

\* A code does its work once and in its time.
CodesAreSound == CodesExpireOnTime /\ CodesAreRedeemedOnce

\* An address that was registered with a password gives nobody a token, and does not
\* count as verified, before a code mailed to it came back: not through VerifyEmail,
\* which takes any token, nor through GoogleOAuth, which takes the address and the
\* Google id from the body of its request but never joins them to such a row.
TokensNeedVerification ==
  row # NoRow /\ row.login = "credential" /\ (tokens \/ row.verified) => proved

\* The pauses between resends grow as the table says, whichever of the two forms
\* asks, unless requests overlap; and no row has a resend but a count of 0, for
\* which the table would give three days.
CooldownLadder ==
  /\ ~raced => \A n \in 1..(Len(resends) - 1) :
                 resends[n + 1] >= resends[n] + getOTPResendCooldown(n)
  /\ row # NoRow => (row.last = 0 <=> row.count = 0)

\* The README says that a ban ends by itself once banned_until has passed.  The
\* middleware, which read a ban that is over, also lifts one set since.
BansLast ==
  row # NoRow /\ ~row.deleted /\ orders.until > now => row.until = orders.until

=============================================================================
