--------------------------------- MODULE Auth ---------------------------------
(***************************************************************************)
(* Logging in, staying in and logging out (fuzzbin/auth/security.py,       *)
(* throttle.py, oidc.py, web/routes/auth.py, web/dependencies.py).         *)
(*                                                                         *)
(* The one user's row and the denylist are in the database; the cache in   *)
(* front of the denylist, the failed attempts of each address and the      *)
(* logins under way at the identity provider are in memory.  Requests      *)
(* interleave at their awaits.  Time is kept in countdowns, so that no     *)
(* clock grows: a tick is longer than a statement of the database takes.   *)
(***************************************************************************)
EXTENDS Naturals, FiniteSets, Sequences, SequencesExt

CONSTANTS
  Clients,       \* one request each at a time
  Addresses,
  Address,       \* [Clients -> Addresses], get_client_ip()
  Passwords,
  FirstPassword, \* "changeme"
  Subjects,      \* identities of the provider
  Menus,         \* what happens in one behaviour: [kinds, issued, pairs, faults], the
                 \* kinds of requests made, the token pairs issued before and at most,
                 \* the number of restarts and foreign rollbacks
  MaxAttempts, Window, NegativeTtl, Life, RefreshLife, StateTtl, CacheSize,
  MaxTokens,     \* bound on token pairs
  MaxStates      \* bound on OIDC logins started

ASSUME AuthAssumption ==
  /\ IsFiniteSet(Clients) /\ IsFiniteSet(Addresses) /\ Address \in [Clients -> Addresses]
  /\ FirstPassword \in Passwords /\ "none" \notin Subjects
  /\ MaxAttempts \in Nat \ {0} /\ Window \in Nat \ {0} /\ NegativeTtl \in Nat \ {0}
  /\ Life \in Nat \ {0} /\ RefreshLife \in Nat \ {0} /\ StateTtl \in Nat \ {0}
  /\ CacheSize \in Nat \ {0} /\ {MaxTokens, MaxStates} \subseteq Nat
  /\ Menus \subseteq [kinds : SUBSET {"password", "tokens", "oidc"},
                      issued : 0..MaxTokens, pairs : 0..MaxTokens, faults : Nat]

Tokens == 1..MaxTokens
States == 1..MaxStates

VARIABLES
  db,        \* the row of users and the rows of revoked_tokens
  disk,      \* as committed
  access,    \* ticks that the access token of each pair is still good for
  refresh,   \* and its refresh token
  minted,
  denied,    \* TokenDenylistCache._revoked
  allowed,   \* _not_revoked: ticks until the entry expires, 0: no entry
  failures,  \* LoginThrottle._attempts: ticks until each leaves the window
  logins,    \* OIDCTransactionStore._store: ticks until the state expires
  started,
  menu,      \* what happens in this behaviour
  req,       \* the request of each client
  faults,
  wrong,     \* history: when each wrong answer since the last success was given
  out,       \* history: NegativeTtl + 1 before the logout returns, then counts down
  lost,      \* history: tokens whose row was rolled back by another call
  raced,     \* history: identities whose binding was overwritten or rolled back
  forgotten  \* history: tokens marked as revoked when the cache was emptied

memory == <<denied, allowed, failures, logins>>
tokens == <<access, refresh, minted>>
history == <<wrong, out, lost, raced, forgotten>>
vars == <<db, disk, tokens, memory, started, menu, req, faults, history>>

Quiet == [step |-> "idle", op |-> "none", tok |-> 0, pass |-> "none", new |-> "none",
          got |-> <<>>, late |-> FALSE]

Init ==
  /\ menu \in Menus
  /\ db = [hash |-> FirstPassword, must |-> menu.issued = 0, subject |-> "none", revoked |-> {}]
  /\ disk = db
  /\ minted = menu.issued
  /\ access = [t \in Tokens |-> IF t <= minted THEN Life ELSE 0]
  /\ refresh = [t \in Tokens |-> IF t <= minted THEN RefreshLife ELSE 0]
  /\ denied = {} /\ allowed = [t \in Tokens |-> 0]
  /\ failures = [a \in Addresses |-> << >>]
  /\ logins = [s \in States |-> 0] /\ started = 0
  /\ req = [c \in Clients |-> Quiet]
  /\ faults = 0
  /\ wrong = failures /\ out = [t \in Tokens |-> NegativeTtl + 1] /\ lost = {} /\ raced = {}
  /\ forgotten = {}

At(c, step) == req[c].step = step
Goto(c, step) == req' = [req EXCEPT ![c].step = step]
Respond(c) == req' = [req EXCEPT ![c] = Quiet]
Ask(c, r) == req' = [req EXCEPT ![c] = r]
\* The statement has run, its result is on the way to the coroutine.
Receive(c, row, step) == req' = [req EXCEPT ![c].got = <<row>>, ![c].step = step]
Got(c) == req[c].got[1]

-----------------------------------------------------------------------------
(* LoginThrottle *)

\* _cleanup_old_attempts(): what leaves the window are the oldest attempts,
\* which come first.
Elapsed(timers) ==
  LET over == Cardinality({i \in DOMAIN timers : timers[i] = 1})
  IN [i \in 1..(Len(timers) - over) |-> timers[over + i] - 1]

\* Mutant: one attempt too many.
BlockedLate(a) == Len(failures[a]) > MaxAttempts
\* is_blocked().
Blocked(a) == Len(failures[a]) >= MaxAttempts

\* Mutant: an attempt that meets the block prolongs it.
CountsAsFailure(a) == failures' = [failures EXCEPT ![a] = Append(Tail(@), Window)]
\* What login() and set_initial_password() do to a blocked address: nothing.
TurnAway(a) == UNCHANGED failures

Refuse(c) ==
  /\ failures' = [failures EXCEPT ![Address[c]] = Append(@, Window)]   \* record_failure()
  /\ wrong' = [wrong EXCEPT ![Address[c]] = Append(@, Window)]
Clear(c) ==
  /\ failures' = [failures EXCEPT ![Address[c]] = << >>]
  /\ wrong' = [wrong EXCEPT ![Address[c]] = << >>]

-----------------------------------------------------------------------------
(* TokenDenylistCache *)

\* is_revoked() drops an entry that is negative_ttl old.
AllowedAfterTick == [t \in Tokens |-> IF allowed[t] = 0 THEN 0 ELSE allowed[t] - 1]

\* _evict_if_needed(): half of the negative entries make room.
Evicted ==
  LET negative == {t \in Tokens : allowed[t] > 0} IN
  IF Cardinality(denied) + Cardinality(negative) < CacheSize THEN {allowed}
  ELSE {[t \in Tokens |-> IF t \in gone THEN 0 ELSE allowed[t]] :
          gone \in {g \in SUBSET negative : Cardinality(g) = Cardinality(negative) \div 2}}

MarkRevoked(t) ==
  /\ denied' = denied \cup {t}
  /\ \E kept \in Evicted : allowed' = [kept EXCEPT ![t] = 0]
MarkNotRevoked(t) ==
  /\ \E kept \in Evicted : allowed' = [kept EXCEPT ![t] = NegativeTtl]
  /\ UNCHANGED denied

-----------------------------------------------------------------------------
(* Requests with a password *)

Login(c, p) ==
  /\ At(c, "idle") /\ "password" \in menu.kinds
  /\ IF Blocked(Address[c])
     THEN TurnAway(Address[c]) /\ UNCHANGED req
     ELSE Ask(c, [Quiet EXCEPT !.step = "user", !.op = "login", !.pass = p]) /\ UNCHANGED failures
  /\ UNCHANGED <<db, disk, tokens, denied, allowed, logins, started, faults, history>>

SetInitialPassword(c, p, n) ==
  /\ At(c, "idle") /\ "password" \in menu.kinds
  /\ IF Blocked(Address[c])
     THEN TurnAway(Address[c]) /\ UNCHANGED req
     ELSE Ask(c, [Quiet EXCEPT !.step = "user", !.op = "initial", !.pass = p, !.new = n]) /\ UNCHANGED failures
  /\ UNCHANGED <<db, disk, tokens, denied, allowed, logins, started, faults, history>>

\* SELECT ... FROM users.
ReadUser(c) ==
  /\ At(c, "user")
  /\ Receive(c, [hash |-> db.hash, must |-> db.must, subject |-> db.subject], "verify")
  /\ UNCHANGED <<db, disk, tokens, memory, started, faults, history>>

VerifyLogin(c) ==
  /\ req[c].op = "login"
  /\ CASE req[c].pass # Got(c).hash -> Refuse(c) /\ Respond(c)
       [] req[c].pass = Got(c).hash /\ Got(c).must -> Respond(c) /\ UNCHANGED <<failures, wrong>>
       [] OTHER -> Clear(c) /\ Goto(c, "issue")

VerifyInitial(c) ==
  /\ req[c].op = "initial"
  /\ CASE ~Got(c).must -> Respond(c) /\ UNCHANGED <<failures, wrong>>
       [] Got(c).must /\ req[c].pass # Got(c).hash -> Refuse(c) /\ Respond(c)
       [] OTHER ->
            /\ IF req[c].new = req[c].pass THEN Respond(c) ELSE Goto(c, "write")
            /\ UNCHANGED <<failures, wrong>>

VerifyChange(c) ==
  /\ req[c].op = "change"
  /\ IF req[c].pass # Got(c).hash THEN Respond(c) ELSE Goto(c, "write")
  /\ UNCHANGED <<failures, wrong>>

\* Mutant: the bound identity is not compared.
TakesAnyone(c) ==
  /\ req[c].op = "exchange"
  /\ Goto(c, IF Got(c).subject = "none" THEN "write" ELSE "issue")
  /\ UNCHANGED <<failures, wrong>>
\* oidc_exchange(): the first identity is bound, others must be the same.
VerifyIdentity(c) ==
  /\ req[c].op = "exchange"
  /\ CASE Got(c).subject = "none" -> Goto(c, "write")
       [] Got(c).subject = req[c].pass -> Goto(c, "issue")
       [] OTHER -> Respond(c)
  /\ UNCHANGED <<failures, wrong>>

Verify(c) ==
  /\ At(c, "verify")
  /\ VerifyLogin(c) \/ VerifyInitial(c) \/ VerifyChange(c) \/ VerifyIdentity(c)
  /\ UNCHANGED <<db, disk, tokens, denied, allowed, logins, started, faults, out, lost, raced, forgotten>>

\* UPDATE users.
Write(c) ==
  /\ At(c, "write")
  /\ db' = CASE req[c].op = "initial" -> [db EXCEPT !.hash = req[c].new, !.must = FALSE]
             [] req[c].op = "change" -> [db EXCEPT !.hash = req[c].new]
             [] OTHER -> [db EXCEPT !.subject = req[c].pass]
  /\ raced' = IF req[c].op = "exchange" THEN raced \cup ({db.subject} \ {"none", req[c].pass})
              ELSE raced
  /\ Goto(c, "commit")
  /\ UNCHANGED <<disk, tokens, memory, started, faults, wrong, out, lost, forgotten>>

\* What follows the commit; revoke_all_user_tokens() only empties the cache.
Commit(c) ==
  /\ At(c, "commit")
  /\ disk' = db
  /\ \/ req[c].op = "initial" /\ Clear(c) /\ Goto(c, "issue") /\ UNCHANGED <<denied, allowed, out>>
     \/ req[c].op = "exchange" /\ Goto(c, "issue")
        /\ UNCHANGED <<denied, allowed, failures, wrong, out>>
     \/ /\ req[c].op = "change" /\ Respond(c)
        /\ denied' = {} /\ allowed' = [t \in Tokens |-> 0] /\ UNCHANGED <<failures, wrong, out>>
     \/ /\ req[c].op = "logout" /\ Respond(c)
        /\ out' = [out EXCEPT ![req[c].tok] = IF @ > NegativeTtl THEN NegativeTtl ELSE @]
        /\ UNCHANGED <<denied, allowed, failures, wrong>>
  /\ forgotten' = IF req[c].op = "change" THEN forgotten \cup denied ELSE forgotten
  /\ UNCHANGED <<db, tokens, logins, started, faults, lost, raced>>

\* Past the bound the new pair is not followed any further.
Mint ==
  IF minted >= menu.pairs THEN UNCHANGED tokens
  ELSE /\ minted' = minted + 1
       /\ access' = [access EXCEPT ![minted + 1] = Life]
       /\ refresh' = [refresh EXCEPT ![minted + 1] = RefreshLife]

\* _issue_tokens(): last_login_at is committed, with whatever else is open.
IssueTokens(c) ==
  /\ At(c, "issue")
  /\ disk' = db /\ Mint /\ Respond(c)
  /\ UNCHANGED <<db, memory, started, faults, history>>

-----------------------------------------------------------------------------
(* Requests with a token *)

\* decode_token(): signed by this server, of the type asked for, not expired.
Good(timers, t) == timers[t] > 0

\* get_current_user() up to its first await: decode_token() and the cache.
Present(c, t, r) ==
  /\ At(c, "idle") /\ "tokens" \in menu.kinds
  /\ Good(access, t) /\ t \notin denied
  /\ Ask(c, [r EXCEPT !.step = IF allowed[t] > 0 THEN "account" ELSE "lookup",
                      !.tok = t, !.late = (out[t] = 0)])
  /\ UNCHANGED <<db, disk, tokens, memory, started, faults, history>>

Use(c, t) == Present(c, t, [Quiet EXCEPT !.op = "use"])
ChangePassword(c, t, p, n) == Present(c, t, [Quiet EXCEPT !.op = "change", !.pass = p, !.new = n])

\* _authenticate_websocket() and stream_video() call decode_token() alone, which
\* looks into the cache: the denylist's table is not read.
Watch(c, t) ==
  /\ At(c, "idle") /\ "tokens" \in menu.kinds
  /\ Good(access, t) /\ t \notin denied
  /\ Ask(c, [Quiet EXCEPT !.step = "account", !.op = "watch", !.tok = t, !.late = (out[t] = 0)])
  /\ UNCHANGED <<db, disk, tokens, memory, started, faults, history>>

\* check_token_revoked_in_db(): the statement, and what is made of its result.
Lookup(c) ==
  /\ At(c, "lookup")
  /\ Receive(c, req[c].tok \in db.revoked, "learn")
  /\ UNCHANGED <<db, disk, tokens, memory, started, faults, history>>

Learn(c) ==
  /\ At(c, "learn")
  /\ IF Got(c) THEN MarkRevoked(req[c].tok) /\ Respond(c)
               ELSE MarkNotRevoked(req[c].tok) /\ Goto(c, "account")
  /\ UNCHANGED <<db, disk, tokens, failures, logins, started, faults, history>>

\* The user, or the video, is there: the request is let in.
Account(c) ==
  /\ At(c, "account")
  /\ CASE req[c].op \in {"use", "watch"} -> Goto(c, "in") /\ UNCHANGED tokens
       [] req[c].op = "change" -> Goto(c, "user") /\ UNCHANGED tokens
       [] OTHER -> Mint /\ Respond(c)
  /\ UNCHANGED <<db, disk, memory, started, faults, history>>

Leave(c) ==
  /\ At(c, "in") /\ Respond(c)
  /\ UNCHANGED <<db, disk, tokens, memory, started, faults, history>>

\* refresh_token(): the old refresh token stays good.
Refresh(c, t) ==
  /\ At(c, "idle") /\ "tokens" \in menu.kinds
  /\ Good(refresh, t)
  /\ Ask(c, [Quiet EXCEPT !.step = "account", !.op = "refresh", !.tok = t])
  /\ UNCHANGED <<db, disk, tokens, memory, started, faults, history>>

\* logout(): revoke_token() marks the cache before it writes the row.
Logout(c, t) ==
  /\ At(c, "idle") /\ "tokens" \in menu.kinds
  /\ Good(access, t)
  /\ MarkRevoked(t)
  /\ Ask(c, [Quiet EXCEPT !.step = "insert", !.op = "logout", !.tok = t])
  /\ UNCHANGED <<db, disk, tokens, failures, logins, started, faults, history>>

\* Mutant: the row is never written.
OnlyInMemory(t) == db
\* INSERT OR REPLACE INTO revoked_tokens.
WithRevoked(t) == [db EXCEPT !.revoked = @ \cup {t}]

InsertRevoked(c) ==
  /\ At(c, "insert")
  /\ db' = WithRevoked(req[c].tok)
  /\ Goto(c, "commit")
  /\ UNCHANGED <<disk, tokens, memory, started, faults, history>>

-----------------------------------------------------------------------------
(* Login at the identity provider *)

\* OIDCTransactionStore: a state is handed out once, and not after its time.
UnderWay(s) == logins[s] > 0

OidcStart ==
  /\ "oidc" \in menu.kinds /\ started < MaxStates
  /\ started' = started + 1
  /\ logins' = [logins EXCEPT ![started + 1] = StateTtl]
  /\ UNCHANGED <<db, disk, tokens, denied, allowed, failures, req, faults, history>>

OidcExchange(c, s, id) ==
  /\ At(c, "idle") /\ "oidc" \in menu.kinds
  /\ UnderWay(s)
  /\ logins' = [logins EXCEPT ![s] = 0]
  /\ Ask(c, [Quiet EXCEPT !.step = "provider", !.op = "exchange", !.pass = id])
  /\ UNCHANGED <<db, disk, tokens, denied, allowed, failures, started, faults, history>>

\* exchange_code(), validate_id_token(), check_group_claim(), allowed_subject.
OidcValidate(c) ==
  /\ At(c, "provider")
  /\ Goto(c, "user") \/ Respond(c)
  /\ UNCHANGED <<db, disk, tokens, memory, started, faults, history>>

-----------------------------------------------------------------------------
(* Time and the rest of the world *)

\* No statement is under way.
Still == \A c \in Clients : req[c].step \in {"idle", "provider", "in"}

Tick ==
  /\ Still
  /\ access' = [t \in Tokens |-> IF access[t] = 0 THEN 0 ELSE access[t] - 1]
  /\ refresh' = [t \in Tokens |-> IF refresh[t] = 0 THEN 0 ELSE refresh[t] - 1]
  /\ allowed' = AllowedAfterTick
  /\ failures' = [a \in Addresses |-> Elapsed(failures[a])]
  /\ wrong' = [a \in Addresses |-> Elapsed(wrong[a])]
  /\ logins' = [s \in States |-> IF logins[s] = 0 THEN 0 ELSE logins[s] - 1]
  /\ out' = [t \in Tokens |-> IF out[t] \in 1..NegativeTtl THEN out[t] - 1 ELSE out[t]]
  /\ UNCHANGED <<db, disk, minted, denied, started, req, faults, lost, raced, forgotten>>

\* A failed call of the repository rolls back what others have not committed.
ForeignRollback ==
  /\ faults < menu.faults /\ db # disk
  /\ faults' = faults + 1
  /\ db' = disk
  /\ lost' = lost \cup (db.revoked \ disk.revoked)
  /\ raced' = raced \cup ({db.subject} \ {"none", disk.subject})
  /\ UNCHANGED <<disk, tokens, memory, started, req, wrong, out, forgotten>>

\* The start of the process forgets the memory and deletes rows of expired
\* tokens, of those of today none (cleanup_expired_tokens() compares texts).
Restart ==
  /\ faults < menu.faults
  /\ faults' = faults + 1
  /\ \E gone \in SUBSET {t \in disk.revoked : access[t] = 0} :
       disk' = [disk EXCEPT !.revoked = @ \ gone]
  /\ db' = disk'
  /\ denied' = {} /\ allowed' = [t \in Tokens |-> 0] /\ forgotten' = forgotten \cup denied
  /\ failures' = [a \in Addresses |-> << >>] /\ wrong' = failures'
  /\ logins' = [s \in States |-> 0]
  /\ req' = [c \in Clients |-> Quiet]
  /\ UNCHANGED <<tokens, started, out, lost, raced>>

\* The command line writes the password in a process of its own.
CliSetPassword(n) ==
  /\ "password" \in menu.kinds /\ db = disk
  /\ db' = [db EXCEPT !.hash = n] /\ disk' = db'
  /\ UNCHANGED <<tokens, memory, started, req, faults, history>>

Step(c) ==
  \/ ReadUser(c) \/ Verify(c) \/ Write(c) \/ Commit(c) \/ IssueTokens(c)
  \/ Lookup(c) \/ Learn(c) \/ Account(c) \/ Leave(c)
  \/ InsertRevoked(c) \/ OidcValidate(c)

Request(c) ==
  \/ \E p \in Passwords : Login(c, p)
  \/ \E p, n \in Passwords : SetInitialPassword(c, p, n)
  \/ \E t \in Tokens : Use(c, t) \/ Watch(c, t) \/ Refresh(c, t) \/ Logout(c, t)
  \/ \E t \in Tokens, p \in Passwords : \E n \in Passwords \ {p} : ChangePassword(c, t, p, n)
  \/ \E s \in States, id \in Subjects : OidcExchange(c, s, id)

Next ==
  /\ \/ \E c \in Clients : Request(c) \/ Step(c)
     \/ OidcStart
     \/ \E n \in Passwords : CliSetPassword(n)
     \/ Tick \/ ForeignRollback \/ Restart
  /\ UNCHANGED menu

\* Coroutines run on and time passes, however often a statement is under way.
Fairness == SF_vars(Tick /\ UNCHANGED menu) /\ \A c \in Clients : WF_vars(Step(c) /\ UNCHANGED menu)
Spec == Init /\ [][Next]_vars /\ Fairness

-----------------------------------------------------------------------------
Timers(n, S) == [S -> 0..n]
\* Longest list of failures: those before the block and those under way then.
Crowd(a) == MaxAttempts - 1 + Cardinality({c \in Clients : Address[c] = a})

TypeOK ==
  /\ {db, disk} \subseteq [hash : Passwords, must : BOOLEAN,
                           subject : Subjects \cup {"none"}, revoked : SUBSET Tokens]
  /\ access \in Timers(Life, Tokens) /\ refresh \in Timers(RefreshLife, Tokens)
  /\ minted \in 0..MaxTokens /\ started \in 0..MaxStates /\ faults \in 0..menu.faults
  /\ \A t \in Tokens : t > minted => access[t] = 0 /\ t \notin denied \cup db.revoked
  /\ denied \subseteq Tokens /\ allowed \in Timers(NegativeTtl, Tokens)
  /\ logins \in Timers(StateTtl, States)
  /\ \A a \in Addresses : failures[a] \in Seq(1..Window) /\ wrong[a] \in Seq(1..Window)
  /\ \A c \in Clients : req[c].step = "idle" <=> req[c] = Quiet

\* login() and set_initial_password() look at the throttle before an await and
\* count a wrong password after it.  However requests overlap, an address hears
\* "wrong password" at most max_attempts times in a window, and once more for
\* each of its other requests that were under way when the last was counted.
GuessesBounded == \A a \in Addresses : Len(wrong[a]) <= Crowd(a)

\* logout() promises that its token is not accepted again.  A lookup that was
\* under way may leave a stale "not revoked" behind, for which the cache is
\* trusted negative_ttl long: no request that begins later is let in, whatever
\* the cache has forgotten, unless another call rolled the row back.  A stream
\* or a connection for events depends on the cache alone: it is let in only if
\* the cache was emptied since, by a restart or a change of the password.
RevocationTakesHold ==
  \A c \in Clients : At(c, "in") /\ req[c].late =>
    \/ req[c].op = "use" /\ req[c].tok \in lost
    \/ req[c].op = "watch" /\ req[c].tok \in forgotten

\* oidc_exchange() binds the first identity and issues tokens to no other one,
\* unless two first logins raced and one overwrote the other's binding.
IssuedToBound ==
  \A c \in Clients :
    At(c, "issue") /\ req[c].op = "exchange" => req[c].pass \in {db.subject} \cup raced

\* Tokens, denylist and identities are in order.
Inv == TypeOK /\ IssuedToBound

\* A blocked address is let in again: what is refused does not prolong the block.
\* (Ticks come between statements, so there must be such moments.)
BlockedIsLetIn == []<>Still => \A a \in Addresses : []<>(~Blocked(a))
=============================================================================
