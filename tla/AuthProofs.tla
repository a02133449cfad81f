------------------------------ MODULE AuthProofs ------------------------------
(***************************************************************************)
(* Theorems about Auth, for every set of clients, addresses and passwords, *)
(* any limits of the throttle and lifetimes of tokens and caches, and any  *)
(* number of restarts and rollbacks.                                       *)
(*                                                                         *)
(* Fine says what a request knows at each of its steps; Revoked, that the  *)
(* row of a token that was logged out is there and the cache forgets about *)
(* it in time; Throttled counts the guesses that are under way.            *)
(***************************************************************************)
EXTENDS Auth, FiniteSetTheorems, WellFoundedInduction, TLAPS

UserRow == [hash : Passwords, must : BOOLEAN, subject : Subjects \cup {"none"}]
DbType == [hash : Passwords, must : BOOLEAN, subject : Subjects \cup {"none"}, revoked : SUBSET Tokens]

Steps == {"idle", "user", "verify", "write", "commit", "issue", "lookup", "learn", "account",
          "in", "insert", "provider"}
Ops == {"none", "login", "initial", "change", "exchange", "use", "watch", "refresh", "logout"}

RequestType ==
  [step : Steps, op : Ops, tok : 0 .. MaxTokens, pass : Passwords \cup Subjects \cup {"none"},
   new : Passwords \cup {"none"}, got : Seq(UserRow \cup BOOLEAN), late : BOOLEAN]

\* Which requests are at which steps.
Course ==
  {<<"idle", "none">>, <<"provider", "exchange">>, <<"insert", "logout">>}
  \cup {"user", "verify"} \X {"login", "initial", "change", "exchange"}
  \cup {"write"} \X {"initial", "change", "exchange"}
  \cup {"commit"} \X {"initial", "change", "exchange", "logout"}
  \cup {"issue"} \X {"login", "initial", "exchange"}
  \cup {"lookup", "learn"} \X {"use", "change"}
  \cup {"account"} \X {"use", "watch", "change", "refresh"}
  \cup {"in"} \X {"use", "watch"}

\* Identities that are or were bound.
Bound == {db.subject} \cup raced

\* What a request goes by, in the order of its steps.
Fine(r) ==
  /\ r \in RequestType /\ <<r.step, r.op>> \in Course
  /\ r.step = "idle" => r = Quiet
  /\ r.op \in {"use", "change", "refresh", "logout"} => r.tok \in 1 .. minted
  /\ r.op \in {"initial", "change"} => r.new \in Passwords
  /\ r.op = "exchange" => r.pass \in Subjects
  /\ r.step = "verify" => r.got[1] \in UserRow
  /\ r.step = "verify" /\ r.op = "exchange" => r.got[1].subject \in {"none"} \cup Bound
  /\ r.step \in {"commit", "issue"} /\ r.op = "exchange" => r.pass \in Bound
  /\ r.step \in {"lookup", "learn"} => access[r.tok] > 0
  /\ r.step \in {"lookup", "learn"} /\ r.late => out[r.tok] = 0
  /\ r.step = "learn" => r.got[1] \in BOOLEAN
  /\ r.step = "learn" /\ ~r.got[1] => out[r.tok] >= NegativeTtl \/ r.tok \in lost
  /\ r.step \in {"account", "in"} /\ r.late => r.op = "watch" \/ r.tok \in lost
  /\ r.step = "commit" /\ r.op = "logout" => r.tok \in db.revoked \cup lost

Reqs == DOMAIN req = Clients /\ \A c \in Clients : Fine(req[c])

Types ==
  /\ menu \in Menus /\ db \in DbType /\ disk \in DbType
  /\ access \in Timers(Life, Tokens) /\ refresh \in Timers(RefreshLife, Tokens)
  /\ minted \in 0 .. MaxTokens /\ started \in 0 .. MaxStates /\ faults \in 0 .. menu.faults
  /\ denied \subseteq Tokens /\ allowed \in Timers(NegativeTtl, Tokens)
  /\ logins \in Timers(StateTtl, States) /\ out \in Timers(NegativeTtl + 1, Tokens)

\* Nothing is known of a token that was not issued.
Unissued ==
  \A t \in Tokens : t > minted =>
    /\ access[t] = 0 /\ refresh[t] = 0 /\ out[t] = NegativeTtl + 1
    /\ t \notin denied \cup db.revoked \cup disk.revoked

\* The row of a token whose logout returned is there and committed for as long
\* as the token is good; a stale entry of the cache goes before `out` is over.
Revoked ==
  \A t \in Tokens : out[t] <= NegativeTtl /\ t \notin lost =>
    /\ allowed[t] <= out[t]
    /\ access[t] > 0 => t \in db.revoked \cap disk.revoked

World == Types /\ Unissued /\ Revoked

InOrder(timers) == \A i, j \in DOMAIN timers : i <= j => timers[i] <= timers[j]

\* Requests of an address that have passed the throttle and whose password is
\* not yet looked at.
IsGuess(r) == r.op \in {"login", "initial"} /\ r.step \in {"user", "verify"}
Behind(a) == {c \in Clients : Address[c] = a}
Guessing(a) == {c \in Behind(a) : IsGuess(req[c])}

Throttled ==
  /\ failures \in [Addresses -> Seq(1 .. Window)] /\ wrong = failures
  /\ \A a \in Addresses :
       InOrder(failures[a]) /\ Len(failures[a]) + Cardinality(Guessing(a)) <= Crowd(a)

IInv == World /\ Reqs /\ Throttled

\* A token whose logout has returned, or has only marked the cache so far, is in
\* the cache, unless the cache was emptied since.
Marked == \A t \in Tokens : out[t] <= NegativeTtl => t \in denied \cup forgotten
Knows(r) ==
  /\ r.op = "logout" => r.tok \in denied \cup forgotten
  /\ r.op = "watch" /\ r.late => r.tok \in forgotten

Held == Marked /\ \A c \in Clients : Knows(req[c])

-----------------------------------------------------------------------------
(* Lists of timers *)

\* A non-empty set of natural numbers has a least element.
LEMMA LeastExists ==
  ASSUME NEW S \in SUBSET Nat, S # {}
  PROVE  \E x \in S : \A y \in S : x <= y
<1> DEFINE R == OpToRel(<, Nat)
<1>1. IsWellFoundedOn(R, Nat)
  BY NatLessThanWellFounded
<1>2. ASSUME NEW x \in Nat, NEW y \in Nat, ~(<<y, x>> \in R)
      PROVE  x <= y
  BY <1>2 DEF OpToRel
<1> HIDE DEF R
<1>3. PICK x \in S : \A y \in S : ~(<<y, x>> \in R)
  BY <1>1, WFMin
<1>4. ASSUME NEW y \in S
      PROVE  x <= y
  <2>1. x \in Nat /\ y \in Nat /\ ~(<<y, x>> \in R)
    BY <1>3
  <2> QED
    BY <1>2, <2>1
<1> QED
  BY <1>4

\* In a list of timers that is in order the last ticks come first, so that
\* what is left after a tick is a list in order that is no longer.
LEMMA ElapsedKeeps ==
  ASSUME NEW s \in Seq(1 .. Window), InOrder(s)
  PROVE  Elapsed(s) \in Seq(1 .. Window) /\ InOrder(Elapsed(s)) /\ Len(Elapsed(s)) <= Len(s)
<1> DEFINE n == Len(s)
           D == {i \in DOMAIN s : s[i] = 1}
           M == {i \in DOMAIN s : s[i] # 1}
           over == Cardinality(D)
<1>1. n \in Nat /\ DOMAIN s = 1 .. n /\ Window \in Nat /\ \A i \in 1 .. n : s[i] \in 1 .. Window
  BY AuthAssumption
<1>2. \E k \in 0 .. n : D = 1 .. k
  <2>1. CASE M = {}
    <3>1. \A i \in 1 .. n : i \in D
      BY <1>1, <2>1
    <3>3. D = 1 .. n
      BY <1>1, <3>1
    <3> QED
      BY <1>1, <3>3
  <2>2. CASE M # {}
    <3>1. M \in SUBSET Nat
      BY <1>1
    <3>2. PICK m \in M : \A y \in M : m <= y
      BY <2>2, <3>1, LeastExists
    <3>3. m \in 1 .. n /\ s[m] > 1
      BY <1>1, <3>2
    <3>4. \A i \in 1 .. n : i < m => i \in D
      BY <1>1, <3>2, <3>3
    <3>5. \A i \in 1 .. n : i >= m => i \notin D
      BY <1>1, <3>3 DEF InOrder
    <3>6. \A i \in 1 .. n : i \in D <=> i < m
      BY <1>1, <3>3, <3>4, <3>5
    <3>7. D = 1 .. (m - 1)
      <4>1. D \subseteq 1 .. n
        BY <1>1
      <4> HIDE DEF D, M, n
      <4>2. ASSUME NEW i
            PROVE  i \in D <=> i \in 1 .. (m - 1)
        <5>1. i \in D => i \in 1 .. n
          BY <4>1
        <5>2. i \in 1 .. (m - 1) => i \in 1 .. n /\ i < m
          BY <1>1, <3>3
        <5>3. i \in 1 .. n /\ i < m => i \in 1 .. (m - 1)
          BY <1>1, <3>3
        <5> QED
          BY <3>6, <5>1, <5>2, <5>3
      <4> QED
        BY <4>2
    <3> QED
      BY <1>1, <3>3, <3>7, SMTT(30)
  <2> QED
    BY <2>1, <2>2
<1>3. PICK k \in 0 .. n : D = 1 .. k
  BY <1>2
<1>4. over = k
  <2>1. k \in Nat
    BY <1>1
  <2>2. Cardinality(1 .. k) = k
    BY <2>1, FS_Interval
  <2> QED
    BY <1>3, <2>2
<1>5. Elapsed(s) = [i \in 1 .. (n - k) |-> s[k + i] - 1]
  BY <1>4 DEF Elapsed
<1> DEFINE e == Elapsed(s)
<1>6. ASSUME NEW i \in 1 .. (n - k)
      PROVE  k + i \in 1 .. n /\ s[k + i] - 1 \in 1 .. Window
  <2>1. k + i \in 1 .. n /\ k + i \notin D
    BY <1>1, <1>3
  <2> QED
    BY <1>1, <2>1
<1>7. n - k \in Nat /\ n - k <= n
  BY <1>1, <1>3
<1>8. e \in Seq(1 .. Window) /\ Len(e) = n - k /\ \A i \in 1 .. (n - k) : e[i] = s[k + i] - 1
  <2> DEFINE q == n - k
             x(i) == s[k + i] - 1
  <2>1. q \in Nat /\ \A i \in 1 .. q : x(i) \in 1 .. Window
    BY <1>6, <1>7
  <2>2. e = [i \in 1 .. q |-> x(i)]
    BY <1>5
  <2> HIDE DEF e, q, x
  <2>3. e \in Seq(1 .. Window) /\ Len(e) = q /\ \A i \in 1 .. q : e[i] = x(i)
    BY <2>1, <2>2
  <2> QED
    BY <2>3 DEF q, x
<1>9. InOrder(e)
  <2>1. ASSUME NEW i \in 1 .. (n - k), NEW j \in 1 .. (n - k), i <= j
        PROVE  e[i] <= e[j]
    <3>1. k + i \in 1 .. n /\ k + j \in 1 .. n /\ k + i <= k + j
      <4>1. k + i \in 1 .. n /\ k + j \in 1 .. n
        BY <1>6
      <4>2. k \in Nat /\ i \in Int /\ j \in Int
        BY <1>1
      <4> QED
        BY <2>1, <4>1, <4>2
    <3>2. s[k + i] <= s[k + j]
      BY <1>1, <3>1 DEF InOrder
    <3>4. s[k + i] \in 1 .. Window /\ s[k + j] \in 1 .. Window
      BY <1>1, <3>1
    <3>5. s[k + i] \in Nat /\ s[k + j] \in Nat
      BY <1>1, <3>4
    <3> QED
      BY <1>8, <3>2, <3>5
  <2>2. DOMAIN e = 1 .. (n - k)
    BY <1>8
  <2> QED
    BY <2>1, <2>2 DEF InOrder
<1> QED
  BY <1>7, <1>8, <1>9

\* The last failure is the one that stays longest.
LEMMA AppendKeeps ==
  ASSUME NEW s \in Seq(1 .. Window), InOrder(s)
  PROVE  /\ Append(s, Window) \in Seq(1 .. Window) /\ InOrder(Append(s, Window))
         /\ Len(Append(s, Window)) = Len(s) + 1
<1>1. Window \in Nat \ {0}
  BY AuthAssumption
<1> DEFINE t == Append(s, Window)
<1>2. t \in Seq(1 .. Window) /\ Len(t) = Len(s) + 1 /\ t[Len(s) + 1] = Window
      /\ \A i \in 1 .. Len(s) : t[i] = s[i]
  BY <1>1
<1> HIDE DEF t
<1>4. \A i \in 1 .. Len(s) + 1 : t[i] \in 1 .. Window
  <2>1. \A i \in 1 .. Len(s) : s[i] \in 1 .. Window
    BY <1>1
  <2> QED
    BY <1>1, <1>2, <2>1
<1>5. InOrder(t)
  <2>1. ASSUME NEW i \in 1 .. Len(s) + 1, NEW j \in 1 .. Len(s) + 1, i <= j
        PROVE  t[i] <= t[j]
    <3>1. CASE j = Len(s) + 1
      <4>2. t[i] \in 1 .. Window
        BY <1>4
      <4> QED
        BY <1>1, <1>2, <3>1, <4>2
    <3>2. CASE j # Len(s) + 1
      BY <1>2, <2>1, <3>2 DEF InOrder
    <3> QED
      BY <3>1, <3>2
  <2>2. DOMAIN t = 1 .. Len(s) + 1
    BY <1>2
  <2> QED
    BY <2>1, <2>2 DEF InOrder
<1> QED
  BY <1>2, <1>5 DEF t

-----------------------------------------------------------------------------
(* What a step leaves alone *)

\* What has become of the world is no worse for the requests under way.
Carries ==
  /\ minted <= minted' /\ lost \subseteq lost'
  /\ \A x \in Subjects : x \in Bound => x \in Bound'
  /\ \A t \in Tokens :
       /\ access[t] > 0 => access'[t] > 0
       /\ out[t] = 0 => out'[t] = 0
       /\ out[t] >= NegativeTtl => out'[t] >= NegativeTtl
       /\ t \in db.revoked \cup lost => t \in db'.revoked \cup lost'

\* The constants' types.
LEMMA Numbers ==
  /\ Window \in Nat \ {0} /\ NegativeTtl \in Nat \ {0} /\ Life \in Nat \ {0}
  /\ RefreshLife \in Nat \ {0} /\ StateTtl \in Nat \ {0} /\ MaxAttempts \in Nat \ {0}
  /\ MaxTokens \in Nat /\ MaxStates \in Nat
BY AuthAssumption

\* A request that goes on by itself knows what it knew.
LEMMA OthersFine ==
  ASSUME Types, Carries, minted' \in Nat, NEW r, Fine(r)
  PROVE  Fine(r)'
<1>1. /\ r \in RequestType /\ <<r.step, r.op>> \in Course
      /\ r.step = "idle" => r = Quiet
  BY DEF Fine
<1>2. r.op \in {"use", "change", "refresh", "logout"} => r.tok \in Tokens /\ r.tok \in 1 .. minted'
  <2> HAVE r.op \in {"use", "change", "refresh", "logout"}
  <2>1. r.tok \in 1 .. minted /\ minted \in 0 .. MaxTokens /\ MaxTokens \in Nat /\ minted <= minted'
    BY Numbers DEF Fine, Types, Carries
  <2> QED
    BY <2>1 DEF Tokens
<1>3. /\ r.op \in {"initial", "change"} => r.new \in Passwords
      /\ r.op = "exchange" => r.pass \in Subjects
      /\ r.step = "verify" => r.got[1] \in UserRow
      /\ r.step = "learn" => r.got[1] \in BOOLEAN
  BY DEF Fine
<1>4. r.step = "verify" /\ r.op = "exchange" => r.got[1].subject \in {"none"} \cup Bound'
  <2> HAVE r.step = "verify" /\ r.op = "exchange"
  <2>1. r.got[1].subject \in {"none"} \cup Bound /\ r.got[1].subject \in Subjects \cup {"none"}
    BY DEF Fine, UserRow
  <2> QED
    BY <2>1 DEF Carries
<1>5. r.step \in {"commit", "issue"} /\ r.op = "exchange" => r.pass \in Bound'
  BY DEF Fine, Carries
<1>6. /\ r.step \in {"lookup", "learn"} => r.op \in {"use", "change"}
      /\ r.step \in {"account", "in"} => r.op \in {"use", "watch", "change", "refresh"}
  BY <1>1 DEF Course
<1>7. /\ r.step \in {"lookup", "learn"} => access'[r.tok] > 0
      /\ r.step \in {"lookup", "learn"} /\ r.late => out'[r.tok] = 0
      /\ r.step = "learn" /\ ~r.got[1] => out'[r.tok] >= NegativeTtl \/ r.tok \in lost'
      /\ r.step \in {"account", "in"} /\ r.late => r.op = "watch" \/ r.tok \in lost'
      /\ r.step = "commit" /\ r.op = "logout" => r.tok \in db'.revoked \cup lost'
  BY <1>2, <1>6 DEF Fine, Carries
<1> QED
  BY <1>1, <1>2, <1>3, <1>4, <1>5, <1>7 DEF Fine

\* One request has taken a step, the others wait.
LEMMA OneMoves ==
  ASSUME World, Reqs, Carries, minted' \in Nat, NEW c \in Clients,
         DOMAIN req' = Clients, \A d \in Clients \ {c} : req'[d] = req[d], Fine(req[c])'
  PROVE  Reqs'
<1>1. ASSUME NEW d \in Clients
      PROVE  Fine(req[d])'
  <2>1. CASE d = c
    BY <2>1
  <2>2. CASE d # c
    <3>1. PICK r : r = req[d]
      OBVIOUS
    <3>2. Fine(r) /\ Types
      BY <3>1 DEF Reqs, World
    <3>3. Fine(r)'
      BY <3>2, OthersFine
    <3>4. req'[d] = r
      BY <2>2, <3>1
    <3> QED
      BY <3>3, <3>4 DEF Fine
  <2> QED
    BY <2>1, <2>2
<1> QED
  BY <1>1 DEF Reqs

\* Nothing is guessed that was not under way.
LEMMA NoGuess ==
  ASSUME Throttled, UNCHANGED <<failures, wrong>>, NEW c \in Clients,
         \A d \in Clients \ {c} : req'[d] = req[d], IsGuess(req'[c]) => IsGuess(req[c])
  PROVE  Throttled'
<1>1. ASSUME NEW a \in Addresses
      PROVE  Len(failures[a]) + Cardinality(Guessing(a)') <= Crowd(a)
  <2>1. /\ IsFiniteSet(Guessing(a)) /\ Guessing(a)' \subseteq Guessing(a)
    <3>1. IsFiniteSet(Clients) /\ Guessing(a) \subseteq Clients
      BY AuthAssumption DEF Guessing, Behind
    <3>2. Guessing(a)' \subseteq Guessing(a)
      BY DEF Guessing, Behind
    <3> QED
      BY <3>1, <3>2, FS_Subset
  <2>2. /\ Cardinality(Guessing(a)') <= Cardinality(Guessing(a))
        /\ Cardinality(Guessing(a)') \in Nat /\ Cardinality(Guessing(a)) \in Nat
    BY <2>1, FS_Subset, FS_CardinalityType
  <2>3. Len(failures[a]) \in Nat /\ Crowd(a) \in Int
    <3>1. IsFiniteSet({d \in Clients : Address[d] = a})
      BY AuthAssumption, FS_Subset
    <3> QED
      BY <3>1, FS_CardinalityType, Numbers DEF Throttled, Crowd
  <2>4. Len(failures[a]) + Cardinality(Guessing(a)) <= Crowd(a)
    BY DEF Throttled
  <2> QED
    BY <2>2, <2>3, <2>4
<1> QED
  BY <1>1 DEF Throttled

\* Steps that only move one request.
LEMMA OnlyMoves ==
  ASSUME IInv, NEW c \in Clients, NEW r,
         UNCHANGED <<menu, db, disk, tokens, memory, started, faults, history>>,
         DOMAIN req' = Clients, \A d \in Clients \ {c} : req'[d] = req[d],
         req'[c] = r, Fine(r), IsGuess(r) => IsGuess(req[c])
  PROVE  IInv'
<1>1. /\ DOMAIN req' = Clients /\ \A d \in Clients \ {c} : req'[d] = req[d]
      /\ req'[c] = r
  OBVIOUS
<1>2. UNCHANGED <<menu, db, disk, access, refresh, minted, denied, allowed, failures, logins,
                  started, faults, wrong, out, lost, raced>>
  BY DEF tokens, memory, history
<1>3. World'
  BY <1>2 DEF IInv, World, Types, Unissued, Revoked
<1>4. Carries
  BY <1>2 DEF Carries, Bound, IInv, World, Types
<1>5. minted' \in Nat /\ Types
  BY <1>2 DEF IInv, World, Types
<1>6. Fine(r)'
  BY <1>4, <1>5, OthersFine
<1>7. Reqs'
  <2>1. Fine(req[c])'
    BY <1>1, <1>6 DEF Fine
  <2> QED
    BY <1>1, <1>4, <1>5, <2>1, OneMoves DEF IInv
<1>8. Throttled'
  BY <1>1, <1>2, NoGuess DEF IInv
<1> QED
  BY <1>3, <1>7, <1>8 DEF IInv

-----------------------------------------------------------------------------
(* How requests move *)

\* Goto.
LEMMA GotoFields ==
  ASSUME Reqs, NEW c \in Clients, NEW s \in Steps, Goto(c, s)
  PROVE  /\ DOMAIN req' = Clients /\ \A d \in Clients \ {c} : req'[d] = req[d]
         /\ req'[c] \in RequestType /\ req'[c].step = s
         /\ req'[c].op = req[c].op /\ req'[c].tok = req[c].tok
         /\ req'[c].pass = req[c].pass /\ req'[c].new = req[c].new
         /\ req'[c].got = req[c].got /\ req'[c].late = req[c].late
<1>1. DOMAIN req = Clients /\ req[c] \in RequestType
  BY DEF Reqs, Fine
<1>2. req' = [req EXCEPT ![c].step = s]
  BY DEF Goto
<1>3. /\ DOMAIN req' = Clients /\ \A d \in Clients \ {c} : req'[d] = req[d]
      /\ req'[c] = [req[c] EXCEPT !.step = s]
  BY <1>1, <1>2
<1> QED
  BY <1>1, <1>3 DEF RequestType

\* Receive.
LEMMA ReceiveFields ==
  ASSUME Reqs, NEW c \in Clients, NEW s \in Steps, NEW row \in UserRow \cup BOOLEAN,
         Receive(c, row, s)
  PROVE  /\ DOMAIN req' = Clients /\ \A d \in Clients \ {c} : req'[d] = req[d]
         /\ req'[c] \in RequestType /\ req'[c].step = s
         /\ req'[c].op = req[c].op /\ req'[c].tok = req[c].tok
         /\ req'[c].pass = req[c].pass /\ req'[c].new = req[c].new
         /\ req'[c].got[1] = row /\ req'[c].late = req[c].late
<1>1. DOMAIN req = Clients /\ req[c] \in RequestType
  BY DEF Reqs, Fine
<1>2. req' = [req EXCEPT ![c].got = <<row>>, ![c].step = s]
  BY DEF Receive
<1>3. /\ DOMAIN req' = Clients /\ \A d \in Clients \ {c} : req'[d] = req[d]
      /\ req'[c] = [req[c] EXCEPT !.got = <<row>>, !.step = s]
  BY <1>1, <1>2
<1>4. <<row>> \in Seq(UserRow \cup BOOLEAN) /\ <<row>>[1] = row
  OBVIOUS
<1> QED
  BY <1>1, <1>3, <1>4 DEF RequestType

\* Ask.
LEMMA AskFields ==
  ASSUME Reqs, NEW c \in Clients, NEW r, Ask(c, r)
  PROVE  /\ DOMAIN req' = Clients /\ \A d \in Clients \ {c} : req'[d] = req[d]
         /\ req'[c] = r
BY DEF Reqs, Ask

\* A request that is answered leaves its client between two requests.
LEMMA RespondFields ==
  ASSUME Reqs, NEW c \in Clients, Respond(c)
  PROVE  /\ DOMAIN req' = Clients /\ \A d \in Clients \ {c} : req'[d] = req[d]
         /\ req'[c] = Quiet
BY DEF Reqs, Respond

\* A client between two requests.
LEMMA QuietFine == Fine(Quiet) /\ Fine(Quiet)' /\ ~IsGuess(Quiet)
<1>1. Quiet \in RequestType
  <2>1. << >> \in Seq(UserRow \cup BOOLEAN) /\ 0 \in 0 .. MaxTokens
    BY Numbers
  <2> QED
    BY <2>1 DEF Quiet, RequestType, Steps, Ops
<1>2. <<Quiet.step, Quiet.op>> \in Course
  BY DEF Quiet, Course
<1> QED
  BY <1>1, <1>2 DEF Fine, Quiet, IsGuess

\* What the course allows at a step.
LEMMA AtStep ==
  ASSUME Reqs, NEW c \in Clients
  PROVE  /\ Fine(req[c]) /\ req[c] \in RequestType
         /\ At(c, "user") => req[c].op \in {"login", "initial", "change", "exchange"}
         /\ At(c, "verify") => req[c].op \in {"login", "initial", "change", "exchange"}
         /\ At(c, "write") => req[c].op \in {"initial", "change", "exchange"}
         /\ At(c, "commit") => req[c].op \in {"initial", "change", "exchange", "logout"}
         /\ At(c, "issue") => req[c].op \in {"login", "initial", "exchange"}
         /\ At(c, "lookup") => req[c].op \in {"use", "change"}
         /\ At(c, "learn") => req[c].op \in {"use", "change"}
         /\ At(c, "account") => req[c].op \in {"use", "watch", "change", "refresh"}
         /\ At(c, "insert") => req[c].op = "logout"
         /\ At(c, "provider") => req[c].op = "exchange"
         /\ At(c, "idle") => req[c] = Quiet /\ ~IsGuess(req[c])
<1>1. Fine(req[c])
  BY DEF Reqs
<1>2. req[c] \in RequestType /\ <<req[c].step, req[c].op>> \in Course
  BY <1>1 DEF Fine
<1>3. At(c, "idle") => req[c] = Quiet /\ ~IsGuess(req[c])
  BY <1>1, QuietFine DEF Fine, At
<1> QED
  BY <1>1, <1>2, <1>3 DEF Course, At

-----------------------------------------------------------------------------
(* Steps that only move one request *)

\* What is read of the user's row names the identity that is bound.
LEMMA ReadUserKeeps ==
  ASSUME IInv, UNCHANGED menu, NEW c \in Clients, ReadUser(c)
  PROVE  IInv'
<1> DEFINE row == [hash |-> db.hash, must |-> db.must, subject |-> db.subject]
<1>1. /\ Reqs /\ At(c, "user") /\ Receive(c, row, "verify")
      /\ UNCHANGED <<menu, db, disk, tokens, memory, started, faults, history>>
  BY DEF ReadUser, IInv
<1>2. row \in UserRow /\ row.subject = db.subject
  BY DEF IInv, World, Types, DbType, UserRow
<1> HIDE DEF row
<1>3. PICK r : r = req'[c]
  OBVIOUS
<1>4. /\ DOMAIN req' = Clients /\ \A d \in Clients \ {c} : req'[d] = req[d]
      /\ r \in RequestType /\ r.step = "verify"
      /\ r.op = req[c].op /\ r.tok = req[c].tok
      /\ r.pass = req[c].pass /\ r.new = req[c].new
      /\ r.got[1] = row /\ r.late = req[c].late
  <2>1. "verify" \in Steps /\ "learn" \in Steps
    BY DEF Steps
  <2> QED
    BY <1>1, <1>2, <1>3, <2>1, ReceiveFields
<1>5. Fine(req[c]) /\ req[c].op \in {"login", "initial", "change", "exchange"}
  BY <1>1, AtStep
<1>6. Fine(r)
  <2>1. <<r.step, r.op>> \in Course
    BY <1>4, <1>5 DEF Course
  <2>2. /\ r.op \in {"use", "change", "refresh", "logout"} => r.tok \in 1 .. minted
        /\ r.op \in {"initial", "change"} => r.new \in Passwords
        /\ r.op = "exchange" => r.pass \in Subjects
    BY <1>4, <1>5 DEF Fine
  <2>3. r.got[1] \in UserRow /\ r.got[1].subject \in Bound
    BY <1>2, <1>4 DEF Bound
  <2> QED
    BY <1>4, <2>1, <2>2, <2>3 DEF Fine
<1>7. IsGuess(r) => IsGuess(req[c])
  BY <1>1, <1>4 DEF IsGuess, At
<1> QED
  BY <1>1, <1>3, <1>4, <1>6, <1>7, OnlyMoves

\* A request that is answered and has changed nothing.
LEMMA RespondKeeps ==
  ASSUME IInv, UNCHANGED menu, NEW c \in Clients, Respond(c),
         UNCHANGED <<db, disk, tokens, memory, started, faults, history>>
  PROVE  IInv'
<1>1. /\ DOMAIN req' = Clients /\ \A d \in Clients \ {c} : req'[d] = req[d]
      /\ req'[c] = Quiet
  BY RespondFields DEF IInv
<1> QED
  BY <1>1, QuietFine, OnlyMoves

\* A request that goes on to a step for which it knows enough.
LEMMA GotoKeeps ==
  ASSUME IInv, UNCHANGED menu, NEW c \in Clients, NEW s \in Steps, Goto(c, s),
         UNCHANGED <<db, disk, tokens, memory, started, faults, history>>,
         <<s, req[c].op>> \in Course,
         s \notin {"idle", "verify", "lookup", "learn", "commit"},
         s = "user" => req[c].op \in {"change", "exchange"},
         s = "issue" /\ req[c].op = "exchange" => req[c].pass \in Bound,
         s \in {"account", "in"} /\ req[c].late =>
           req[c].op = "watch" \/ req[c].tok \in lost
  PROVE  IInv'
<1>1. PICK r : r = req'[c]
  OBVIOUS
<1>2. /\ DOMAIN req' = Clients /\ \A d \in Clients \ {c} : req'[d] = req[d]
      /\ r \in RequestType /\ r.step = s
      /\ r.op = req[c].op /\ r.tok = req[c].tok
      /\ r.pass = req[c].pass /\ r.new = req[c].new
      /\ r.got = req[c].got /\ r.late = req[c].late
  BY <1>1, GotoFields DEF IInv
<1>3. Fine(req[c])
  BY AtStep DEF IInv
<1>4. Fine(r)
  BY <1>2, <1>3 DEF Fine
<1>5. ~IsGuess(r)
  BY <1>2 DEF IsGuess
<1> QED
  BY <1>1, <1>2, <1>4, <1>5, OnlyMoves

\* The answer of the denylist: what was read after the logout returned is that
\* the token is revoked, unless its row was rolled back.
LEMMA LookupKeeps ==
  ASSUME IInv, UNCHANGED menu, NEW c \in Clients, Lookup(c)
  PROVE  IInv'
<1> DEFINE row == req[c].tok \in db.revoked
           t == req[c].tok
<1>1. /\ Reqs /\ At(c, "lookup") /\ Receive(c, row, "learn")
      /\ UNCHANGED <<db, disk, tokens, memory, started, faults, history>>
  BY DEF Lookup, IInv
<1>2. row \in BOOLEAN
  OBVIOUS
<1>3. PICK r : r = req'[c]
  OBVIOUS
<1> HIDE DEF row
<1>4. /\ DOMAIN req' = Clients /\ \A d \in Clients \ {c} : req'[d] = req[d]
      /\ r \in RequestType /\ r.step = "learn"
      /\ r.op = req[c].op /\ r.tok = req[c].tok
      /\ r.pass = req[c].pass /\ r.new = req[c].new
      /\ r.got[1] = row /\ r.late = req[c].late
  <2>1. "verify" \in Steps /\ "learn" \in Steps
    BY DEF Steps
  <2> QED
    BY <1>1, <1>2, <1>3, <2>1, ReceiveFields
<1>5. Fine(req[c]) /\ req[c].op \in {"use", "change"}
  BY <1>1, AtStep
<1>6. t \in 1 .. minted /\ access[t] > 0 /\ (r.late => out[t] = 0)
  BY <1>1, <1>4, <1>5 DEF Fine, At
<1>7. t \in Tokens
  BY <1>6, Numbers DEF IInv, World, Types, Tokens
<1>8. ~row => out[t] >= NegativeTtl \/ t \in lost
  <2>1. t \notin db.revoked => ~(out[t] <= NegativeTtl /\ t \notin lost)
    BY <1>6, <1>7 DEF IInv, World, Revoked
  <2>2. out[t] \in 0 .. NegativeTtl + 1
    BY <1>7 DEF IInv, World, Types, Timers
  <2> QED
    BY <2>1, <2>2, Numbers DEF row
<1>9. Fine(r)
  <2>1. <<r.step, r.op>> \in Course
    BY <1>4, <1>5 DEF Course
  <2>2. r.op \in {"initial", "change"} => r.new \in Passwords
    BY <1>4, <1>5 DEF Fine
  <2> QED
    BY <1>2, <1>4, <1>5, <1>6, <1>8, <2>1, <2>2 DEF Fine
<1>10. ~IsGuess(r)
  BY <1>4 DEF IsGuess
<1> QED
  BY <1>1, <1>3, <1>4, <1>9, <1>10, OnlyMoves

\* A token is presented: one whose logout returned long enough ago is not in
\* the cache as good, so that the request asks the database.
LEMMA PresentKeeps ==
  ASSUME IInv, UNCHANGED menu, NEW c \in Clients, NEW t \in Tokens,
         NEW q, q \in RequestType, q.op \in {"use", "change"},
         q.op = "change" => q.new \in Passwords, Present(c, t, q)
  PROVE  IInv'
<1> DEFINE s == IF allowed[t] > 0 THEN "account" ELSE "lookup"
<1>1. /\ Reqs /\ At(c, "idle") /\ access[t] > 0
      /\ Ask(c, [q EXCEPT !.step = s, !.tok = t, !.late = (out[t] = 0)])
      /\ UNCHANGED <<db, disk, tokens, memory, started, faults, history>>
  BY DEF Present, IInv, Good
<1>2. PICK r : r = [q EXCEPT !.step = s, !.tok = t, !.late = (out[t] = 0)]
  OBVIOUS
<1>3. s \in {"account", "lookup"}
  OBVIOUS
<1>4. t \in 1 .. minted /\ t \in 0 .. MaxTokens
  <2>1. t <= minted
    BY <1>1, Numbers DEF IInv, World, Types, Unissued, Tokens
  <2> QED
    BY <2>1, Numbers DEF IInv, World, Types, Tokens
<1> HIDE DEF s
<1>5. /\ r \in RequestType /\ r.step = s /\ r.op = q.op /\ r.tok = t /\ r.new = q.new
      /\ r.late = (out[t] = 0)
  <2>1. s \in Steps /\ (out[t] = 0) \in BOOLEAN
    BY <1>3 DEF Steps
  <2> QED
    BY <1>2, <1>4, <2>1 DEF RequestType
<1>6. s = "account" /\ out[t] = 0 => t \in lost
  BY Numbers DEF s, IInv, World, Types, Revoked, Timers
<1>7. Fine(r)
  <2>1. <<r.step, r.op>> \in Course
    BY <1>3, <1>5 DEF Course
  <2> QED
    BY <1>1, <1>3, <1>4, <1>5, <1>6, <2>1 DEF Fine
<1>8. ~IsGuess(r)
  BY <1>5 DEF IsGuess
<1>9. /\ DOMAIN req' = Clients /\ \A d \in Clients \ {c} : req'[d] = req[d]
      /\ req'[c] = r
  BY <1>1, <1>2, AskFields
<1> QED
  BY <1>1, <1>7, <1>8, <1>9, OnlyMoves

\* A token is presented for some use of the service.
LEMMA UseKeeps ==
  ASSUME IInv, UNCHANGED menu, NEW c \in Clients, NEW t \in Tokens, Use(c, t)
  PROVE  IInv'
<1> DEFINE q == [Quiet EXCEPT !.op = "use"]
<1>1. q \in RequestType /\ q.op = "use"
  <2>1. Quiet \in RequestType
    BY QuietFine DEF Fine
  <2> QED
    BY <2>1 DEF RequestType, Ops
<1>2. Present(c, t, q)
  BY DEF Use
<1> HIDE DEF q
<1> QED
  BY <1>1, <1>2, PresentKeeps

\* A token is presented with a change of the password.
LEMMA ChangePasswordKeeps ==
  ASSUME IInv, UNCHANGED menu, NEW c \in Clients, NEW t \in Tokens,
         NEW p \in Passwords, NEW n \in Passwords, ChangePassword(c, t, p, n)
  PROVE  IInv'
<1> DEFINE q == [Quiet EXCEPT !.op = "change", !.pass = p, !.new = n]
<1>1. q \in RequestType /\ q.op = "change" /\ q.new = n
  <2>1. Quiet \in RequestType
    BY QuietFine DEF Fine
  <2> QED
    BY <2>1 DEF RequestType, Ops
<1>2. Present(c, t, q)
  BY DEF ChangePassword
<1> HIDE DEF q
<1> QED
  BY <1>1, <1>2, PresentKeeps

\* A refresh token is presented.
LEMMA RefreshKeeps ==
  ASSUME IInv, UNCHANGED menu, NEW c \in Clients, NEW t \in Tokens, Refresh(c, t)
  PROVE  IInv'
<1> DEFINE q == [Quiet EXCEPT !.step = "account", !.op = "refresh", !.tok = t]
<1>1. Reqs /\ At(c, "idle") /\ refresh[t] > 0 /\ Ask(c, q)
      /\ UNCHANGED <<db, disk, tokens, memory, started, faults, history>>
  BY DEF Refresh, IInv, Good
<1>2. t \in 1 .. minted /\ t \in 0 .. MaxTokens
  <2>1. t <= minted
    BY <1>1, Numbers DEF IInv, World, Types, Unissued, Tokens
  <2> QED
    BY <2>1, Numbers DEF IInv, World, Types, Tokens
<1>3. q \in RequestType /\ q.op = "refresh" /\ q.tok = t /\ q.step = "account" /\ q.late = FALSE
  <2>1. Quiet \in RequestType
    BY QuietFine DEF Fine
  <2>2. Quiet.late = FALSE
    BY DEF Quiet
  <2> QED
    BY <1>2, <2>1, <2>2 DEF RequestType, Ops, Steps
<1> HIDE DEF q
<1>4. Fine(q) /\ ~IsGuess(q)
  BY <1>2, <1>3 DEF Fine, IsGuess, Course
<1>5. /\ DOMAIN req' = Clients /\ \A d \in Clients \ {c} : req'[d] = req[d]
      /\ req'[c] = q
  BY <1>1, AskFields
<1> QED
  BY <1>1, <1>4, <1>5, OnlyMoves

\* A stream or a connection for events is asked for.
LEMMA WatchKeeps ==
  ASSUME IInv, UNCHANGED menu, NEW c \in Clients, NEW t \in Tokens, Watch(c, t)
  PROVE  IInv'
<1> DEFINE q == [Quiet EXCEPT !.step = "account", !.op = "watch", !.tok = t, !.late = (out[t] = 0)]
<1>1. Reqs /\ At(c, "idle") /\ Ask(c, q)
      /\ UNCHANGED <<db, disk, tokens, memory, started, faults, history>>
  BY DEF Watch, IInv
<1>2. t \in 0 .. MaxTokens
  BY Numbers DEF Tokens
<1>3. q \in RequestType /\ q.op = "watch" /\ q.step = "account"
  <2>1. Quiet \in RequestType
    BY QuietFine DEF Fine
  <2> QED
    BY <1>2, <2>1 DEF RequestType, Ops, Steps
<1> HIDE DEF q
<1>4. Fine(q) /\ ~IsGuess(q)
  BY <1>3 DEF Fine, IsGuess, Course
<1>5. /\ DOMAIN req' = Clients /\ \A d \in Clients \ {c} : req'[d] = req[d]
      /\ req'[c] = q
  BY <1>1, AskFields
<1> QED
  BY <1>1, <1>4, <1>5, OnlyMoves

\* The provider answers.
LEMMA OidcValidateKeeps ==
  ASSUME IInv, UNCHANGED menu, NEW c \in Clients, OidcValidate(c)
  PROVE  IInv'
<1>1. /\ Goto(c, "user") \/ Respond(c)
      /\ UNCHANGED <<db, disk, tokens, memory, started, faults, history>>
      /\ req[c].op = "exchange"
  BY AtStep DEF OidcValidate, IInv
<1>2. "user" \in Steps /\ <<"user", req[c].op>> \in Course
  BY <1>1 DEF Steps, Course
<1> QED
  BY <1>1, <1>2, GotoKeeps, RespondKeeps

\* A request that was let in is answered.
LEMMA LeaveKeeps ==
  ASSUME IInv, UNCHANGED menu, NEW c \in Clients, Leave(c)
  PROVE  IInv'
BY RespondKeeps DEF Leave

\* The password of a request that changes it is right or not.
LEMMA VerifyChangeKeeps ==
  ASSUME IInv, UNCHANGED menu, NEW c \in Clients, Verify(c), VerifyChange(c)
  PROVE  IInv'
<1>1. /\ Goto(c, "write") \/ Respond(c)
      /\ UNCHANGED <<db, disk, tokens, memory, started, faults, history>>
      /\ req[c].op = "change"
  BY DEF Verify, VerifyChange, memory, history
<1>2. "write" \in Steps /\ <<"write", req[c].op>> \in Course
  BY <1>1 DEF Steps, Course
<1> QED
  BY <1>1, <1>2, GotoKeeps, RespondKeeps

\* An identity that goes on to its tokens is the one the row named, which is
\* bound still or was overwritten.
LEMMA VerifyIdentityKeeps ==
  ASSUME IInv, UNCHANGED menu, NEW c \in Clients, Verify(c), VerifyIdentity(c)
  PROVE  IInv'
<1>1. /\ UNCHANGED <<db, disk, tokens, memory, started, faults, history>>
      /\ req[c].op = "exchange" /\ At(c, "verify")
      /\ Fine(req[c])
  BY AtStep DEF Verify, VerifyIdentity, memory, history, IInv
<1>2. \/ Goto(c, "write") \/ Respond(c)
      \/ Goto(c, "issue") /\ Got(c).subject = req[c].pass
  BY DEF VerifyIdentity
<1>3. /\ "write" \in Steps /\ "issue" \in Steps
      /\ <<"write", req[c].op>> \in Course /\ <<"issue", req[c].op>> \in Course
  BY <1>1 DEF Steps, Course
<1>4. Got(c).subject = req[c].pass => req[c].pass \in Bound
  <2>1. req[c].got[1].subject \in {"none"} \cup Bound /\ req[c].pass \in Subjects
    BY <1>1 DEF Fine, At
  <2> QED
    BY <2>1, AuthAssumption DEF Got
<1> QED
  BY <1>1, <1>2, <1>3, <1>4, GotoKeeps, RespondKeeps

-----------------------------------------------------------------------------
(* The throttle *)

\* How many requests of an address there are.
LEMMA Count ==
  ASSUME NEW a \in Addresses
  PROVE  /\ IsFiniteSet(Behind(a)) /\ Cardinality(Behind(a)) \in Nat
         /\ Crowd(a) = MaxAttempts - 1 + Cardinality(Behind(a))
         /\ Guessing(a) \subseteq Behind(a) /\ Guessing(a)' \subseteq Behind(a)
         /\ \A G \in SUBSET Behind(a) :
              IsFiniteSet(G) /\ Cardinality(G) \in Nat /\ Cardinality(G) <= Cardinality(Behind(a))
<1>1. IsFiniteSet(Behind(a))
  BY AuthAssumption, FS_Subset DEF Behind
<1>2. Crowd(a) = MaxAttempts - 1 + Cardinality(Behind(a))
  BY DEF Crowd, Behind
<1>3. Guessing(a) \subseteq Behind(a) /\ Guessing(a)' \subseteq Behind(a)
  BY DEF Guessing, Behind
<1> QED
  BY <1>1, <1>2, <1>3, FS_Subset, FS_CardinalityType

\* A request passes the throttle only while there are less failures than it
\* allows: then there is room for all that are under way.
LEMMA NewGuess ==
  ASSUME Throttled, UNCHANGED <<failures, wrong>>, NEW c \in Clients,
         \A d \in Clients \ {c} : req'[d] = req[d], ~Blocked(Address[c])
  PROVE  Throttled'
<1>1. ASSUME NEW a \in Addresses
      PROVE  Len(failures[a]) + Cardinality(Guessing(a)') <= Crowd(a)
  <2> DEFINE n == Len(failures[a])
             g == Cardinality(Guessing(a))
             h == Cardinality(Guessing(a)')
             b == Cardinality(Behind(a))
  <2>1. n \in Nat /\ n + g <= Crowd(a)
    BY DEF Throttled
  <2>2. b \in Nat /\ Crowd(a) = MaxAttempts - 1 + b /\ g \in Nat /\ h \in Nat /\ h <= b
    BY Count
  <2>3. CASE a = Address[c]
    <3>1. n < MaxAttempts
      BY <2>1, <2>3, Numbers DEF Blocked
    <3> HIDE DEF n, g, h, b
    <3> QED
      BY <2>1, <2>2, <3>1, Numbers DEF n, h
  <2>4. CASE a # Address[c]
    <3>1. Guessing(a)' = Guessing(a)
      BY <2>4 DEF Guessing, Behind
    <3> QED
      BY <2>1, <3>1
  <2> QED
    BY <2>3, <2>4
<1> QED
  BY <1>1 DEF Throttled

\* A failure is counted when the guess is over.
LEMMA RefuseCounts ==
  ASSUME Throttled, NEW c \in Clients, Refuse(c),
         \A d \in Clients \ {c} : req'[d] = req[d], IsGuess(req[c]), ~IsGuess(req'[c])
  PROVE  Throttled'
<1> DEFINE x == Address[c]
<1>1. x \in Addresses /\ c \in Behind(x)
  BY AuthAssumption DEF Behind
<1>2. /\ failures \in [Addresses -> Seq(1 .. Window)] /\ wrong = failures
      /\ failures' = [failures EXCEPT ![x] = Append(@, Window)]
      /\ wrong' = [wrong EXCEPT ![x] = Append(@, Window)]
  BY DEF Throttled, Refuse
<1>3. /\ failures[x] \in Seq(1 .. Window) /\ InOrder(failures[x])
  BY <1>1, <1>2 DEF Throttled
<1> DEFINE s == Append(failures[x], Window)
<1>4. s \in Seq(1 .. Window) /\ InOrder(s) /\ Len(s) = Len(failures[x]) + 1
  BY <1>3, AppendKeeps
<1>5. failures' = [failures EXCEPT ![x] = s] /\ wrong' = failures'
  BY <1>2
<1> HIDE DEF s
<1>6. /\ failures' \in [Addresses -> Seq(1 .. Window)] /\ failures'[x] = s
      /\ \A a \in Addresses \ {x} : failures'[a] = failures[a]
  BY <1>1, <1>2, <1>4, <1>5
<1>7. ASSUME NEW a \in Addresses
      PROVE  InOrder(failures'[a]) /\ Len(failures'[a]) + Cardinality(Guessing(a)') <= Crowd(a)
  <2> DEFINE n == Len(failures[a])
             g == Cardinality(Guessing(a))
             h == Cardinality(Guessing(a)')
  <2>1. n \in Nat /\ n + g <= Crowd(a) /\ InOrder(failures[a])
    BY DEF Throttled
  <2>2. g \in Nat /\ h \in Nat /\ IsFiniteSet(Guessing(a)) /\ Crowd(a) \in Int
    BY Count, Numbers
  <2>3. CASE a = x
    <3>1. c \in Guessing(a) /\ Guessing(a)' = Guessing(a) \ {c}
      BY <1>1, <2>3 DEF Guessing, Behind
    <3>2. h = g - 1
      BY <2>2, <3>1, FS_RemoveElement
    <3>3. Len(failures'[a]) = n + 1 /\ InOrder(failures'[a])
      BY <1>4, <1>6, <2>3
    <3> HIDE DEF n, g, h
    <3> QED
      BY <2>1, <2>2, <3>2, <3>3 DEF h
  <2>4. CASE a # x
    <3>1. Guessing(a)' = Guessing(a)
      BY <2>4 DEF Guessing, Behind
    <3> QED
      BY <1>6, <2>1, <2>4, <3>1
  <2> QED
    BY <2>3, <2>4
<1> QED
  BY <1>5, <1>6, <1>7 DEF Throttled

\* A success leaves no failure.
LEMMA ClearCounts ==
  ASSUME Throttled, NEW c \in Clients, Clear(c),
         \A d \in Clients \ {c} : req'[d] = req[d]
  PROVE  Throttled'
<1> DEFINE x == Address[c]
<1>1. x \in Addresses
  BY AuthAssumption
<1>2. /\ failures \in [Addresses -> Seq(1 .. Window)] /\ wrong = failures
      /\ failures' = [failures EXCEPT ![x] = << >>] /\ wrong' = failures'
  BY DEF Throttled, Clear
<1>3. << >> \in Seq(1 .. Window) /\ Len(<< >>) = 0 /\ InOrder(<< >>)
  BY DEF InOrder
<1>4. /\ failures' \in [Addresses -> Seq(1 .. Window)] /\ failures'[x] = << >>
      /\ \A a \in Addresses \ {x} : failures'[a] = failures[a]
  BY <1>1, <1>2, <1>3
<1>5. ASSUME NEW a \in Addresses
      PROVE  InOrder(failures'[a]) /\ Len(failures'[a]) + Cardinality(Guessing(a)') <= Crowd(a)
  <2>1. CASE a = x
    <3> DEFINE h == Cardinality(Guessing(a)')
               b == Cardinality(Behind(a))
    <3>1. b \in Nat /\ Crowd(a) = MaxAttempts - 1 + b /\ h \in Nat /\ h <= b
      BY Count
    <3> HIDE DEF h, b
    <3>2. 0 + h <= Crowd(a)
      BY <3>1, Numbers
    <3> QED
      BY <1>3, <1>4, <2>1, <3>2 DEF h
  <2>2. CASE a # x
    <3>1. Guessing(a)' = Guessing(a)
      BY <2>2 DEF Guessing, Behind
    <3>2. InOrder(failures[a]) /\ Len(failures[a]) + Cardinality(Guessing(a)) <= Crowd(a)
      BY DEF Throttled
    <3> QED
      BY <1>4, <2>2, <3>1, <3>2
  <2> QED
    BY <2>1, <2>2
<1> QED
  BY <1>2, <1>4, <1>5 DEF Throttled

\* Time passes between statements: failures leave, and no guess is under way.
LEMMA TickCounts ==
  ASSUME Throttled, UNCHANGED req,
         failures' = [a \in Addresses |-> Elapsed(failures[a])],
         wrong' = [a \in Addresses |-> Elapsed(wrong[a])]
  PROVE  Throttled'
<1>1. /\ failures \in [Addresses -> Seq(1 .. Window)] /\ wrong' = failures'
  BY DEF Throttled
<1>2. ASSUME NEW a \in Addresses
      PROVE  /\ failures'[a] \in Seq(1 .. Window) /\ InOrder(failures'[a])
             /\ Len(failures'[a]) + Cardinality(Guessing(a)') <= Crowd(a)
  <2> DEFINE e == Elapsed(failures[a])
             n == Len(failures[a])
             g == Cardinality(Guessing(a))
  <2>1. failures[a] \in Seq(1 .. Window) /\ InOrder(failures[a]) /\ n + g <= Crowd(a)
    BY DEF Throttled
  <2>2. e \in Seq(1 .. Window) /\ InOrder(e) /\ Len(e) <= n
    BY <2>1, ElapsedKeeps
  <2>3. failures'[a] = e
    OBVIOUS
  <2>4. Guessing(a)' = Guessing(a)
    BY DEF Guessing, Behind
  <2>5. g \in Nat /\ n \in Nat /\ Len(e) \in Nat /\ Crowd(a) \in Int
    BY <2>1, <2>2, Count, Numbers
  <2> DEFINE m == Len(e)
  <2>6. m + g <= Crowd(a)
    <3> HIDE DEF m, n, g
    <3>1. m <= n /\ m \in Nat
      BY <2>2, <2>5 DEF m
    <3> QED
      BY <2>1, <2>5, <3>1
  <2> HIDE DEF e
  <2> QED
    BY <2>2, <2>3, <2>4, <2>6
<1> QED
  BY <1>1, <1>2 DEF Throttled

-----------------------------------------------------------------------------
(* Steps of requests with a password *)

\* One request moves; the rest of the world is in order, and no worse for the
\* others.
LEMMA Moved ==
  ASSUME IInv, World', Carries, Throttled', NEW c \in Clients, NEW r,
         DOMAIN req' = Clients, \A d \in Clients \ {c} : req'[d] = req[d],
         req'[c] = r, Fine(r)'
  PROVE  IInv'
<1>1. minted' \in Nat
  BY Numbers DEF World, Types
<1>2. Fine(req[c])'
  BY DEF Fine
<1>3. Reqs'
  BY <1>1, <1>2, OneMoves DEF IInv
<1> QED
  BY <1>3 DEF IInv

\* The world does not speak of the throttle and of the requests.
LEMMA SameWorld ==
  ASSUME World,
         UNCHANGED <<menu, db, disk, tokens, denied, allowed, logins, started, faults, out, lost>>
  PROVE  World'
BY DEF World, Types, Unissued, Revoked, tokens

\* What requests go by is unchanged.
LEMMA SameCarries ==
  ASSUME World, UNCHANGED <<db, minted, access, out, lost, raced>>
  PROVE  Carries /\ minted' \in Nat
BY Numbers DEF Carries, Bound, World, Types

\* Only the throttle and one request are touched.
LEMMA PasswordKeeps ==
  ASSUME IInv, NEW c \in Clients, NEW r, Throttled',
         UNCHANGED <<menu, db, disk, tokens, denied, allowed, logins, started, faults, out, lost,
                     raced>>,
         DOMAIN req' = Clients, \A d \in Clients \ {c} : req'[d] = req[d],
         req'[c] = r, Fine(r)
  PROVE  IInv'
<1>1. World'
  BY SameWorld DEF IInv
<1>2. Carries /\ minted' \in Nat
  BY SameCarries DEF IInv, tokens
<1>3. Fine(r)'
  BY <1>2, OthersFine DEF IInv, World
<1> QED
  BY <1>1, <1>2, <1>3, Moved

\* Goto, for a request that knows enough for the step.
LEMMA GotoFine ==
  ASSUME IInv, NEW c \in Clients, NEW s \in Steps, Goto(c, s), NEW r, r = req'[c],
         <<s, req[c].op>> \in Course,
         s \notin {"idle", "verify", "lookup", "learn", "commit"},
         s = "issue" /\ req[c].op = "exchange" => req[c].pass \in Bound,
         s \in {"account", "in"} /\ req[c].late =>
           req[c].op = "watch" \/ req[c].tok \in lost
  PROVE  /\ DOMAIN req' = Clients /\ \A d \in Clients \ {c} : req'[d] = req[d]
         /\ Fine(r) /\ r.step = s /\ r.op = req[c].op
<1>1. /\ DOMAIN req' = Clients /\ \A d \in Clients \ {c} : req'[d] = req[d]
      /\ r \in RequestType /\ r.step = s
      /\ r.op = req[c].op /\ r.tok = req[c].tok
      /\ r.pass = req[c].pass /\ r.new = req[c].new
      /\ r.got = req[c].got /\ r.late = req[c].late
  BY GotoFields DEF IInv
<1>2. Fine(req[c])
  BY AtStep DEF IInv
<1>3. Fine(r)
  BY <1>1, <1>2 DEF Fine
<1> QED
  BY <1>1, <1>3

\* A blocked address is turned away; another one's request is a guess.
LEMMA GuessKeeps ==
  ASSUME IInv, UNCHANGED menu, NEW c \in Clients, NEW q \in RequestType,
         UNCHANGED <<db, disk, tokens, denied, allowed, logins, started, faults, history>>,
         q.step = "user", q.op \in {"login", "initial"},
         q.op = "initial" => q.new \in Passwords,
         IF Blocked(Address[c]) THEN UNCHANGED <<failures, req>>
         ELSE Ask(c, q) /\ UNCHANGED failures
  PROVE  IInv'
<1>1. CASE Blocked(Address[c])
  <2>1. UNCHANGED <<failures, wrong, req>>
    BY <1>1 DEF history
  <2>2. Throttled'
    BY <2>1 DEF IInv, Throttled, Guessing, Behind
  <2>3. World'
    BY SameWorld DEF IInv, history
  <2>4. Reqs'
    BY <2>1 DEF IInv, Reqs, Fine, Bound, history, tokens
  <2> QED
    BY <2>2, <2>3, <2>4 DEF IInv
<1>2. CASE ~Blocked(Address[c])
  <2>1. Ask(c, q) /\ UNCHANGED <<failures, wrong>>
    BY <1>2 DEF history
  <2>2. /\ DOMAIN req' = Clients /\ \A d \in Clients \ {c} : req'[d] = req[d]
        /\ req'[c] = q
    BY <2>1, AskFields DEF IInv
  <2>3. Throttled'
    BY <1>2, <2>1, <2>2, NewGuess DEF IInv
  <2>4. Fine(q)
    BY DEF Fine, Course
  <2>5. UNCHANGED <<out, lost, raced>>
    BY DEF history
  <2> QED
    BY <2>2, <2>3, <2>4, <2>5, PasswordKeeps
<1> QED
  BY <1>1, <1>2

\* A login that passes the throttle is a guess.
LEMMA LoginKeeps ==
  ASSUME IInv, UNCHANGED menu, NEW c \in Clients, NEW p \in Passwords, Login(c, p)
  PROVE  IInv'
<1> DEFINE q == [Quiet EXCEPT !.step = "user", !.op = "login", !.pass = p]
<1>1. q \in RequestType /\ q.op = "login" /\ q.step = "user"
  <2>1. Quiet \in RequestType
    BY QuietFine DEF Fine
  <2> QED
    BY <2>1 DEF RequestType, Ops, Steps
<1>2. /\ UNCHANGED <<db, disk, tokens, denied, allowed, logins, started, faults, history>>
      /\ IF Blocked(Address[c]) THEN UNCHANGED <<failures, req>>
         ELSE Ask(c, q) /\ UNCHANGED failures
  BY DEF Login, TurnAway
<1> HIDE DEF q
<1> QED
  BY <1>1, <1>2, GuessKeeps

\* So is a first password, which comes with the one it replaces.
LEMMA SetInitialPasswordKeeps ==
  ASSUME IInv, UNCHANGED menu, NEW c \in Clients, NEW p \in Passwords, NEW n \in Passwords,
         SetInitialPassword(c, p, n)
  PROVE  IInv'
<1> DEFINE q == [Quiet EXCEPT !.step = "user", !.op = "initial", !.pass = p, !.new = n]
<1>1. q \in RequestType /\ q.op = "initial" /\ q.step = "user" /\ q.new = n
  <2>1. Quiet \in RequestType
    BY QuietFine DEF Fine
  <2> QED
    BY <2>1 DEF RequestType, Ops, Steps
<1>2. /\ UNCHANGED <<db, disk, tokens, denied, allowed, logins, started, faults, history>>
      /\ IF Blocked(Address[c]) THEN UNCHANGED <<failures, req>>
         ELSE Ask(c, q) /\ UNCHANGED failures
  BY DEF SetInitialPassword, TurnAway
<1> HIDE DEF q
<1> QED
  BY <1>1, <1>2, GuessKeeps

\* The password of a login or of a first password is looked at: the guess is
\* over, and counted if it was wrong.
LEMMA VerifyGuessKeeps ==
  ASSUME IInv, UNCHANGED menu, NEW c \in Clients, Verify(c),
         VerifyLogin(c) \/ VerifyInitial(c)
  PROVE  IInv'
<1>1. /\ UNCHANGED <<menu, db, disk, tokens, denied, allowed, logins, started, faults, out, lost, raced>>
      /\ At(c, "verify") /\ req[c].op \in {"login", "initial"} /\ IsGuess(req[c])
      /\ Throttled /\ Reqs
  BY DEF Verify, VerifyLogin, VerifyInitial, At, IsGuess, IInv
<1>2. \/ Respond(c) /\ (Refuse(c) \/ UNCHANGED <<failures, wrong>>)
      \/ \E s \in {"issue", "write"} :
           /\ Goto(c, s) /\ <<s, req[c].op>> \in Course
           /\ Clear(c) \/ UNCHANGED <<failures, wrong>>
  BY DEF VerifyLogin, VerifyInitial, Course
<1>3. CASE Respond(c) /\ (Refuse(c) \/ UNCHANGED <<failures, wrong>>)
  <2>1. /\ DOMAIN req' = Clients /\ \A d \in Clients \ {c} : req'[d] = req[d]
        /\ req'[c] = Quiet
    BY <1>1, <1>3, RespondFields
  <2>2. Throttled'
    BY <1>1, <1>3, <2>1, QuietFine, RefuseCounts, NoGuess
  <2> QED
    BY <1>1, <2>1, <2>2, QuietFine, PasswordKeeps
<1>4. ASSUME NEW s \in {"issue", "write"}, Goto(c, s), <<s, req[c].op>> \in Course,
             Clear(c) \/ UNCHANGED <<failures, wrong>>
      PROVE  IInv'
  <2>1. PICK r : r = req'[c]
    OBVIOUS
  <2>2. s \in Steps
    BY DEF Steps
  <2>3. /\ DOMAIN req' = Clients /\ \A d \in Clients \ {c} : req'[d] = req[d]
        /\ Fine(r) /\ r.step = s
    BY <1>1, <1>4, <2>1, <2>2, GotoFine
  <2>4. ~IsGuess(r)
    BY <2>3 DEF IsGuess
  <2>5. Throttled'
    BY <1>1, <1>4, <2>1, <2>3, <2>4, ClearCounts, NoGuess
  <2> QED
    BY <1>1, <2>1, <2>3, <2>5, PasswordKeeps
<1> QED
  BY <1>2, <1>3, <1>4

\* A new password or identity is written: the identity that it takes the place
\* of is remembered as raced.
LEMMA WriteKeeps ==
  ASSUME IInv, UNCHANGED menu, NEW c \in Clients, Write(c)
  PROVE  IInv'
<1>1. /\ World /\ Types /\ Reqs /\ Throttled /\ At(c, "write") /\ Goto(c, "commit")
      /\ UNCHANGED <<menu, disk, access, refresh, minted, denied, allowed, failures, logins,
                     started, faults, wrong, out, lost>>
  BY DEF Write, IInv, World, tokens, memory
<1>2. Fine(req[c]) /\ req[c].op \in {"initial", "change", "exchange"}
  BY <1>1, AtStep
<1> DEFINE new == req[c].new
           id == req[c].pass
<1>3. /\ req[c].op \in {"initial", "change"} => new \in Passwords
      /\ req[c].op = "exchange" => id \in Subjects
  BY <1>2 DEF Fine
<1>4. db \in DbType
  BY <1>1 DEF Types
<1>5. /\ db' \in DbType /\ db'.revoked = db.revoked
      /\ req[c].op # "exchange" => db'.subject = db.subject /\ raced' = raced
      /\ req[c].op = "exchange" =>
           db'.subject = id /\ raced' = raced \cup ({db.subject} \ {"none", id})
  <2>1. CASE req[c].op = "initial"
    <3>1. db' = [db EXCEPT !.hash = new, !.must = FALSE] /\ raced' = raced
      BY <2>1 DEF Write
    <3> HIDE DEF new
    <3> QED
      BY <1>3, <1>4, <2>1, <3>1 DEF DbType
  <2>2. CASE req[c].op = "change"
    <3>1. db' = [db EXCEPT !.hash = new] /\ raced' = raced
      BY <2>2 DEF Write
    <3> HIDE DEF new
    <3> QED
      BY <1>3, <1>4, <2>2, <3>1 DEF DbType
  <2>3. CASE req[c].op = "exchange"
    <3>1. db' = [db EXCEPT !.subject = id] /\ raced' = raced \cup ({db.subject} \ {"none", id})
      BY <2>3 DEF Write
    <3> HIDE DEF id
    <3> QED
      BY <1>3, <1>4, <2>3, <3>1 DEF DbType
  <2> QED
    BY <1>2, <2>1, <2>2, <2>3
<1> HIDE DEF new, id
<1>6. World'
  BY <1>1, <1>5 DEF World, Types, Unissued, Revoked
<1>7. Carries
  <2>1. \A x \in Subjects : x \in Bound => x \in Bound'
    BY <1>2, <1>5, AuthAssumption DEF Bound
  <2> QED
    BY <1>1, <1>5, <2>1 DEF Carries, Types
<1>8. PICK r : r = req'[c]
  OBVIOUS
<1>9. /\ DOMAIN req' = Clients /\ \A d \in Clients \ {c} : req'[d] = req[d]
      /\ r \in RequestType /\ r.step = "commit"
      /\ r.op = req[c].op /\ r.tok = req[c].tok
      /\ r.pass = req[c].pass /\ r.new = req[c].new
  <2>1. "commit" \in Steps
    BY DEF Steps
  <2> QED
    BY <1>1, <1>8, <2>1, GotoFields
<1>10. Fine(r)'
  <2>1. <<r.step, r.op>> \in Course
    BY <1>2, <1>9 DEF Course
  <2>2. r.op = "exchange" => r.pass \in Bound'
    BY <1>5, <1>9 DEF Bound, id
  <2>3. r.op \notin {"use", "refresh", "logout"} /\ (r.op = "change" => r.tok \in 1 .. minted')
    BY <1>1, <1>2, <1>9 DEF Fine
  <2>4. /\ r.op \in {"initial", "change"} => r.new \in Passwords
        /\ r.op = "exchange" => r.pass \in Subjects
    BY <1>2, <1>9 DEF Fine
  <2> QED
    BY <1>9, <2>1, <2>2, <2>3, <2>4 DEF Fine
<1>11. Throttled'
  BY <1>1, <1>8, <1>9, NoGuess DEF IsGuess
<1> QED
  BY <1>6, <1>7, <1>8, <1>9, <1>10, <1>11, Moved

\* A commit saves what the database holds; whatever the cache forgets, and
\* whatever logouts return, the denylist holds what they promised.
LEMMA SavedWorld ==
  ASSUME World, UNCHANGED <<menu, db, tokens, logins, started, faults, lost>>, disk' = db,
         denied' \in {denied, {}}, allowed' \in {allowed, [t \in Tokens |-> 0]},
         \/ out' = out
         \/ \E x \in Tokens :
              /\ x <= minted /\ x \in db.revoked \cup lost
              /\ out' = [out EXCEPT ![x] = IF @ > NegativeTtl THEN NegativeTtl ELSE @]
  PROVE  World' /\ (\A t \in Tokens : out[t] = 0 => out'[t] = 0)
         /\ \A t \in Tokens : out[t] >= NegativeTtl => out'[t] >= NegativeTtl
<1>1. Types /\ Unissued /\ Revoked /\ UNCHANGED <<access, refresh, minted>>
  BY DEF World, tokens
<1>2. /\ allowed' \in Timers(NegativeTtl, Tokens)
      /\ \A t \in Tokens : allowed'[t] <= allowed[t] /\ allowed'[t] \in 0 .. NegativeTtl
  BY <1>1, Numbers DEF Types, Timers
<1>3. /\ out' \in Timers(NegativeTtl + 1, Tokens)
      /\ \A t \in Tokens : out'[t] = out[t] \/ (/\ out[t] = NegativeTtl + 1 /\ out'[t] = NegativeTtl
                                                /\ t <= minted /\ t \in db.revoked \cup lost)
  <2>1. CASE out' = out
    BY <1>1, <2>1 DEF Types
  <2>2. ASSUME NEW x \in Tokens, x <= minted, x \in db.revoked \cup lost,
               out' = [out EXCEPT ![x] = IF @ > NegativeTtl THEN NegativeTtl ELSE @]
        PROVE  /\ out' \in Timers(NegativeTtl + 1, Tokens)
               /\ \A t \in Tokens : out'[t] = out[t] \/ (/\ out[t] = NegativeTtl + 1 /\ out'[t] = NegativeTtl
                                                         /\ t <= minted /\ t \in db.revoked \cup lost)
    BY <1>1, <2>2, Numbers DEF Types, Timers
  <2> QED
    BY <2>1, <2>2
<1>4. \A t \in Tokens : out[t] \in 0 .. NegativeTtl + 1 /\ allowed[t] \in 0 .. NegativeTtl
  BY <1>1 DEF Types, Timers
<1>5. Types'
  BY <1>1, <1>2, <1>3 DEF Types
<1>6. Unissued'
  <2>1. ASSUME NEW t \in Tokens, t > minted
        PROVE  out'[t] = NegativeTtl + 1 /\ ~(t <= minted)
    <3>1. t \in Nat /\ minted \in Nat
      BY <1>1, Numbers DEF Types, Tokens
    <3> QED
      BY <1>1, <1>3, <2>1, <3>1 DEF Unissued
  <2> QED
    BY <1>1, <2>1 DEF Unissued
<1>7. Revoked'
  <2>1. ASSUME NEW t \in Tokens, out'[t] <= NegativeTtl, t \notin lost
        PROVE  /\ allowed'[t] <= out'[t]
               /\ access[t] > 0 => t \in db.revoked
    <3>1. CASE out'[t] = out[t]
      BY <1>1, <1>2, <1>4, <2>1, <3>1, Numbers DEF Revoked
    <3>2. CASE out'[t] # out[t]
      <4>1. out'[t] = NegativeTtl /\ t \in db.revoked
        BY <1>3, <2>1, <3>2
      <4> QED
        BY <1>2, <4>1, Numbers
    <3> QED
      BY <3>1, <3>2
  <2> QED
    BY <1>1, <2>1 DEF Revoked
<1>8. ASSUME NEW t \in Tokens
      PROVE  (out[t] = 0 => out'[t] = 0) /\ (out[t] >= NegativeTtl => out'[t] >= NegativeTtl)
  BY <1>3, <1>4, Numbers
<1> QED
  BY <1>5, <1>6, <1>7, <1>8 DEF World

\* What follows the commit of each request.
LEMMA CommitKeeps ==
  ASSUME IInv, UNCHANGED menu, NEW c \in Clients, Commit(c)
  PROVE  IInv'
<1>1. /\ World /\ Types /\ Reqs /\ Throttled /\ At(c, "commit") /\ disk' = db
      /\ UNCHANGED <<menu, db, tokens, logins, started, faults, lost, raced>>
      /\ UNCHANGED <<access, refresh, minted>>
  BY DEF Commit, IInv, World, tokens
<1>2. Fine(req[c]) /\ req[c] \in RequestType /\ ~IsGuess(req[c])
  BY <1>1, AtStep DEF IsGuess, At
<1>3. CASE /\ req[c].op \in {"initial", "exchange"} /\ Goto(c, "issue")
           /\ Clear(c) \/ UNCHANGED <<failures, wrong>>
           /\ UNCHANGED <<denied, allowed, out>>
  <2>1. World' /\ Carries /\ minted' \in Nat
    BY <1>1, <1>3, SavedWorld, SameCarries
  <2>2. PICK r : r = req'[c]
    OBVIOUS
  <2>3. /\ "issue" \in Steps /\ <<"issue", req[c].op>> \in Course
        /\ req[c].op = "exchange" => req[c].pass \in Bound
    BY <1>1, <1>2, <1>3 DEF Steps, Course, Fine, At
  <2>4. /\ DOMAIN req' = Clients /\ \A d \in Clients \ {c} : req'[d] = req[d]
        /\ Fine(r) /\ r.step = "issue"
    BY <1>3, <2>2, <2>3, GotoFine
  <2>5. Fine(r)'
    BY <1>1, <2>1, <2>4, OthersFine
  <2>6. Throttled'
    BY <1>1, <1>3, <2>2, <2>4, ClearCounts, NoGuess DEF IsGuess
  <2> QED
    BY <2>1, <2>2, <2>4, <2>5, <2>6, Moved
<1>4. CASE /\ Respond(c) /\ UNCHANGED <<failures, wrong>>
           /\ \/ /\ req[c].op = "change" /\ denied' = {} /\ allowed' = [t \in Tokens |-> 0]
                 /\ UNCHANGED out
              \/ /\ req[c].op = "logout"
                 /\ out' = [out EXCEPT ![req[c].tok] = IF @ > NegativeTtl THEN NegativeTtl ELSE @]
                 /\ UNCHANGED <<denied, allowed>>
  <2>1. \/ out' = out
        \/ \E x \in Tokens :
             /\ x <= minted /\ x \in db.revoked \cup lost
             /\ out' = [out EXCEPT ![x] = IF @ > NegativeTtl THEN NegativeTtl ELSE @]
    <3>1. CASE req[c].op = "change"
      BY <1>4, <3>1
    <3>2. CASE req[c].op = "logout"
      <4>1. req[c].tok \in 1 .. minted /\ req[c].tok \in db.revoked \cup lost
        BY <1>1, <1>2, <3>2 DEF Fine, At
      <4>2. req[c].tok \in Tokens /\ req[c].tok <= minted
        BY <1>1, <4>1, Numbers DEF Types, Tokens
      <4> QED
        BY <1>4, <3>2, <4>1, <4>2
    <3> QED
      BY <1>4, <3>1, <3>2
  <2>2. World' /\ (\A t \in Tokens : out[t] = 0 => out'[t] = 0)
        /\ \A t \in Tokens : out[t] >= NegativeTtl => out'[t] >= NegativeTtl
    <3>1. denied' \in {denied, {}} /\ allowed' \in {allowed, [t \in Tokens |-> 0]}
      BY <1>4
    <3> QED
      BY <1>1, <2>1, <3>1, SavedWorld
  <2>3. Carries
    BY <1>1, <2>2, Numbers DEF Carries, Bound, Types
  <2>4. /\ DOMAIN req' = Clients /\ \A d \in Clients \ {c} : req'[d] = req[d]
        /\ req'[c] = Quiet
    BY <1>1, <1>4, RespondFields
  <2>5. Throttled'
    BY <1>1, <1>4, <2>4, QuietFine, NoGuess
  <2> QED
    BY <2>2, <2>3, <2>4, <2>5, QuietFine, Moved
<1> QED
  BY <1>3, <1>4 DEF Commit

-----------------------------------------------------------------------------
(* Token pairs and the denylist *)

\* A new pair is one of which nothing was known.
LEMMA MintWorld ==
  ASSUME World, Mint, disk' \in {disk, db},
         UNCHANGED <<menu, db, denied, allowed, logins, started, faults, out, lost, raced>>
  PROVE  World' /\ Carries /\ minted' \in Nat
<1>1. Types /\ Unissued /\ Revoked
  BY DEF World
<1>2. CASE UNCHANGED tokens
  <2>1. UNCHANGED <<access, refresh, minted>>
    BY <1>2 DEF tokens
  <2>2. World'
    BY <1>1, <2>1 DEF World, Types, Unissued, Revoked
  <2> QED
    BY <2>1, <2>2, SameCarries
<1>3. CASE /\ minted < menu.pairs /\ minted' = minted + 1
           /\ access' = [access EXCEPT ![minted + 1] = Life]
           /\ refresh' = [refresh EXCEPT ![minted + 1] = RefreshLife]
  <2> DEFINE n == minted + 1
  <2>1. menu.pairs \in 0 .. MaxTokens /\ minted \in 0 .. MaxTokens
    BY <1>1, AuthAssumption DEF Types
  <2>2. n \in Tokens /\ n \in 0 .. MaxTokens /\ minted < n /\ \A t \in Tokens : t > n => t > minted
    BY <1>3, <2>1, Numbers DEF Tokens
  <2>3. /\ access \in Timers(Life, Tokens) /\ refresh \in Timers(RefreshLife, Tokens)
        /\ minted' = n
        /\ access' = [access EXCEPT ![n] = Life] /\ refresh' = [refresh EXCEPT ![n] = RefreshLife]
    BY <1>1, <1>3 DEF Types
  <2>4. out[n] = NegativeTtl + 1
    BY <1>1, <2>2 DEF Unissued
  <2> HIDE DEF n
  <2>5. /\ access' \in Timers(Life, Tokens) /\ refresh' \in Timers(RefreshLife, Tokens)
        /\ access'[n] = Life
        /\ \A t \in Tokens \ {n} : access'[t] = access[t] /\ refresh'[t] = refresh[t]
    BY <2>2, <2>3, Numbers DEF Timers
  <2>6. Types'
    BY <1>1, <2>2, <2>3, <2>5 DEF Types
  <2>7. Unissued'
    <3>1. ASSUME NEW t \in Tokens, t > n
          PROVE  t > minted /\ t # n
      <4>1. t \in Nat /\ n \in Nat
        BY <2>2, Numbers DEF Tokens
      <4> QED
        BY <2>2, <3>1, <4>1
    <3> QED
      BY <1>1, <2>3, <2>5, <3>1 DEF Unissued
  <2>8. Revoked'
    <3>1. ASSUME NEW t \in Tokens, out[t] <= NegativeTtl
          PROVE  t # n
      BY <2>4, <3>1, Numbers
    <3> QED
      BY <1>1, <2>5, <3>1 DEF Revoked
  <2>9. Carries
    <3>1. minted <= minted' /\ \A t \in Tokens : access[t] > 0 => access'[t] > 0
      BY <2>1, <2>2, <2>3, <2>5, Numbers
    <3> QED
      BY <3>1 DEF Carries, Bound
  <2> QED
    BY <2>2, <2>3, <2>6, <2>7, <2>8, <2>9, Numbers DEF World
<1>4. minted >= menu.pairs \/ minted < menu.pairs
  <2>1. menu.pairs \in 0 .. MaxTokens /\ minted \in 0 .. MaxTokens
    BY <1>1, AuthAssumption DEF Types
  <2> QED
    BY <2>1, Numbers
<1>5. CASE minted >= menu.pairs
  BY <1>2, <1>5 DEF Mint
<1>6. CASE ~(minted >= menu.pairs)
  BY <1>3, <1>4, <1>6 DEF Mint
<1> QED
  BY <1>5, <1>6

\* A request is answered with a new pair.
LEMMA MintKeeps ==
  ASSUME IInv, UNCHANGED menu, NEW c \in Clients, Mint, Respond(c), disk' \in {disk, db},
         UNCHANGED <<db, memory, started, faults, history>>
  PROVE  IInv'
<1>1. /\ World /\ Reqs /\ Throttled
      /\ UNCHANGED <<denied, allowed, failures, logins, wrong, out, lost, raced>>
  BY DEF IInv, memory, history
<1>2. World' /\ Carries
  BY <1>1, MintWorld
<1>3. /\ DOMAIN req' = Clients /\ \A d \in Clients \ {c} : req'[d] = req[d]
      /\ req'[c] = Quiet
  BY <1>1, RespondFields
<1>4. Throttled'
  BY <1>1, <1>3, QuietFine, NoGuess
<1> QED
  BY <1>2, <1>3, <1>4, QuietFine, Moved

\* Tokens are issued, and whatever else is open is committed.
LEMMA IssueTokensKeeps ==
  ASSUME IInv, UNCHANGED menu, NEW c \in Clients, IssueTokens(c)
  PROVE  IInv'
BY MintKeeps DEF IssueTokens

\* The account is there: the request goes on as it was let in.
LEMMA AccountKeeps ==
  ASSUME IInv, UNCHANGED menu, NEW c \in Clients, Account(c)
  PROVE  IInv'
<1>1. /\ At(c, "account") /\ UNCHANGED <<db, disk, memory, started, faults, history>>
      /\ Reqs
  BY DEF Account, IInv
<1>2. Fine(req[c]) /\ req[c].op \in {"use", "watch", "change", "refresh"}
  BY <1>1, AtStep
<1>3. CASE req[c].op \in {"use", "watch"}
  <2>1. Goto(c, "in") /\ UNCHANGED tokens
    BY <1>3 DEF Account
  <2>2. /\ "in" \in Steps /\ <<"in", req[c].op>> \in Course
        /\ req[c].late => req[c].op = "watch" \/ req[c].tok \in lost
    BY <1>1, <1>2, <1>3 DEF Steps, Course, Fine, At
  <2> QED
    BY <1>1, <2>1, <2>2, GotoKeeps
<1>4. CASE req[c].op = "change"
  <2>1. Goto(c, "user") /\ UNCHANGED tokens
    BY <1>4 DEF Account
  <2>2. "user" \in Steps /\ <<"user", req[c].op>> \in Course
    BY <1>4 DEF Steps, Course
  <2> QED
    BY <1>1, <1>4, <2>1, <2>2, GotoKeeps
<1>5. CASE req[c].op = "refresh"
  <2>1. Mint /\ Respond(c)
    BY <1>5 DEF Account
  <2> QED
    BY <1>1, <2>1, MintKeeps
<1> QED
  BY <1>2, <1>3, <1>4, <1>5

\* Room is made by forgetting entries.
LEMMA EvictedForgets ==
  ASSUME Types, NEW kept \in Evicted
  PROVE  /\ kept \in Timers(NegativeTtl, Tokens)
         /\ \A t \in Tokens : kept[t] = 0 \/ kept[t] = allowed[t]
<1>1. allowed \in Timers(NegativeTtl, Tokens)
  BY DEF Types
<1>2. \/ kept = allowed
      \/ \E gone \in SUBSET Tokens : kept = [t \in Tokens |-> IF t \in gone THEN 0 ELSE allowed[t]]
  BY DEF Evicted
<1>3. CASE kept = allowed
  BY <1>1, <1>3
<1>4. ASSUME NEW gone \in SUBSET Tokens,
             kept = [t \in Tokens |-> IF t \in gone THEN 0 ELSE allowed[t]]
      PROVE  /\ kept \in Timers(NegativeTtl, Tokens)
             /\ \A t \in Tokens : kept[t] = 0 \/ kept[t] = allowed[t]
  BY <1>1, <1>4, Numbers DEF Timers
<1> QED
  BY <1>2, <1>3, <1>4

\* An issued token is marked in the cache as revoked, or as good for as long
\* as its logout leaves it.
LEMMA MarkWorld ==
  ASSUME World, UNCHANGED <<menu, db, disk, tokens, logins, started, faults, out, lost>>,
         NEW t \in Tokens, t <= minted,
         MarkRevoked(t) \/ (MarkNotRevoked(t) /\ (out[t] >= NegativeTtl \/ t \in lost))
  PROVE  World'
<1>1. Types /\ Unissued /\ Revoked /\ UNCHANGED <<access, refresh, minted>>
  BY DEF World, tokens
<1>2. \E kept \in Evicted :
        \/ denied' = denied \cup {t} /\ allowed' = [kept EXCEPT ![t] = 0]
        \/ /\ denied' = denied /\ allowed' = [kept EXCEPT ![t] = NegativeTtl]
           /\ out[t] >= NegativeTtl \/ t \in lost
  BY DEF MarkRevoked, MarkNotRevoked
<1>3. PICK kept \in Evicted :
        \/ denied' = denied \cup {t} /\ allowed' = [kept EXCEPT ![t] = 0]
        \/ /\ denied' = denied /\ allowed' = [kept EXCEPT ![t] = NegativeTtl]
           /\ out[t] >= NegativeTtl \/ t \in lost
  BY <1>2
<1>4. /\ kept \in Timers(NegativeTtl, Tokens)
      /\ \A x \in Tokens : kept[x] = 0 \/ kept[x] = allowed[x]
  BY <1>1, EvictedForgets
<1>5. /\ allowed' \in Timers(NegativeTtl, Tokens)
      /\ \A x \in Tokens : \/ allowed'[x] = 0 \/ allowed'[x] = allowed[x]
                           \/ /\ x = t /\ allowed'[x] = NegativeTtl
                              /\ out[t] >= NegativeTtl \/ t \in lost
  BY <1>3, <1>4, Numbers DEF Timers
<1>6. Types'
  <2>1. denied' \subseteq Tokens
    BY <1>1, <1>3 DEF Types
  <2> QED
    BY <1>1, <1>5, <2>1 DEF Types
<1>7. Unissued'
  <2>1. ASSUME NEW x \in Tokens, x > minted
        PROVE  x # t
    <3>1. x \in Nat /\ t \in Nat /\ minted \in Nat
      BY <1>1, Numbers DEF Types, Tokens
    <3> QED
      BY <2>1, <3>1
  <2>2. \A x \in Tokens : x # t /\ x \in denied' => x \in denied
    BY <1>3
  <2> QED
    BY <1>1, <2>1, <2>2 DEF Unissued
<1>8. Revoked'
  <2>1. ASSUME NEW x \in Tokens, out[x] <= NegativeTtl, x \notin lost
        PROVE  allowed'[x] <= out[x]
    <3>1. allowed[x] <= out[x] /\ out[x] \in 0 .. NegativeTtl + 1
      BY <1>1, <2>1 DEF Revoked, Types, Timers
    <3> QED
      BY <1>5, <2>1, <3>1, Numbers
  <2> QED
    BY <1>1, <2>1 DEF Revoked
<1> QED
  BY <1>6, <1>7, <1>8 DEF World

\* The cache learns what the database answered: a request that began after the
\* logout returned goes on only if the row was rolled back.
LEMMA LearnKeeps ==
  ASSUME IInv, UNCHANGED menu, NEW c \in Clients, Learn(c)
  PROVE  IInv'
<1> DEFINE t == req[c].tok
<1>1. /\ World /\ Types /\ Reqs /\ Throttled /\ At(c, "learn")
      /\ UNCHANGED <<menu, db, disk, tokens, failures, logins, started, faults>>
      /\ UNCHANGED <<access, minted, wrong, out, lost, raced>>
  BY DEF Learn, IInv, World, tokens, history
<1>2. Fine(req[c]) /\ req[c].op \in {"use", "change"} /\ req[c] \in RequestType
  BY <1>1, AtStep
<1>3. /\ t \in 1 .. minted /\ (req[c].late => out[t] = 0)
      /\ Got(c) \in BOOLEAN /\ (~Got(c) => out[t] >= NegativeTtl \/ t \in lost)
  BY <1>1, <1>2 DEF Fine, At, Got
<1>4. t \in Tokens /\ t <= minted
  BY <1>1, <1>3, Numbers DEF Types, Tokens
<1>5. Carries /\ minted' \in Nat
  BY <1>1, SameCarries
<1>6. CASE Got(c)
  <2>1. MarkRevoked(t) /\ Respond(c)
    BY <1>6 DEF Learn
  <2>2. World'
    BY <1>1, <1>4, <2>1, MarkWorld
  <2>3. /\ DOMAIN req' = Clients /\ \A d \in Clients \ {c} : req'[d] = req[d]
        /\ req'[c] = Quiet
    BY <1>1, <2>1, RespondFields
  <2>4. Throttled'
    BY <1>1, <2>3, QuietFine, NoGuess
  <2> QED
    BY <1>5, <2>2, <2>3, <2>4, QuietFine, Moved
<1>7. CASE ~Got(c)
  <2>1. MarkNotRevoked(t) /\ Goto(c, "account") /\ (out[t] >= NegativeTtl \/ t \in lost)
    BY <1>3, <1>7 DEF Learn
  <2>2. World'
    BY <1>1, <1>4, <2>1, MarkWorld
  <2>3. PICK r : r = req'[c]
    OBVIOUS
  <2>4. "account" \in Steps /\ <<"account", req[c].op>> \in Course
    BY <1>2 DEF Steps, Course
  <2>5. req[c].late => t \in lost
    BY <1>3, <2>1, Numbers
  <2>6. /\ DOMAIN req' = Clients /\ \A d \in Clients \ {c} : req'[d] = req[d]
        /\ Fine(r) /\ r.step = "account"
    BY <2>1, <2>3, <2>4, <2>5, GotoFine
  <2>7. Fine(r)'
    BY <1>1, <1>5, <2>6, OthersFine
  <2>8. Throttled'
    BY <1>1, <2>3, <2>6, NoGuess DEF IsGuess
  <2> QED
    BY <1>5, <2>2, <2>3, <2>6, <2>7, <2>8, Moved
<1> QED
  BY <1>3, <1>6, <1>7

\* A logout marks the cache, and goes on to write the row.
LEMMA LogoutKeeps ==
  ASSUME IInv, UNCHANGED menu, NEW c \in Clients, NEW t \in Tokens, Logout(c, t)
  PROVE  IInv'
<1> DEFINE q == [Quiet EXCEPT !.step = "insert", !.op = "logout", !.tok = t]
<1>1. /\ World /\ Types /\ Reqs /\ Throttled /\ At(c, "idle") /\ access[t] > 0
      /\ MarkRevoked(t) /\ Ask(c, q)
      /\ UNCHANGED <<menu, db, disk, tokens, failures, logins, started, faults>>
      /\ UNCHANGED <<access, minted, wrong, out, lost, raced>>
  BY DEF Logout, IInv, World, Good, tokens, history
<1>2. t \in 1 .. minted /\ t \in 0 .. MaxTokens /\ t <= minted
  <2>1. t <= minted
    BY <1>1, Numbers DEF World, Types, Unissued, Tokens
  <2> QED
    BY <1>1, <2>1, Numbers DEF Types, Tokens
<1>3. q \in RequestType /\ q.op = "logout" /\ q.tok = t /\ q.step = "insert"
  <2>1. Quiet \in RequestType
    BY QuietFine DEF Fine
  <2> QED
    BY <1>2, <2>1 DEF RequestType, Ops, Steps
<1> HIDE DEF q
<1>4. Fine(q) /\ ~IsGuess(q)
  BY <1>2, <1>3 DEF Fine, IsGuess, Course
<1>5. World' /\ Carries /\ minted' \in Nat
  BY <1>1, <1>2, MarkWorld, SameCarries
<1>6. Fine(q)'
  BY <1>1, <1>4, <1>5, OthersFine
<1>7. /\ DOMAIN req' = Clients /\ \A d \in Clients \ {c} : req'[d] = req[d]
      /\ req'[c] = q
  BY <1>1, AskFields
<1>8. Throttled'
  BY <1>1, <1>4, <1>7, NoGuess
<1> QED
  BY <1>5, <1>6, <1>7, <1>8, Moved

\* The row is written, and the commit follows.
LEMMA InsertRevokedKeeps ==
  ASSUME IInv, UNCHANGED menu, NEW c \in Clients, InsertRevoked(c)
  PROVE  IInv'
<1> DEFINE t == req[c].tok
<1>1. /\ World /\ Types /\ Unissued /\ Revoked /\ Reqs /\ Throttled /\ At(c, "insert")
      /\ Goto(c, "commit") /\ db' = [db EXCEPT !.revoked = @ \cup {t}]
      /\ UNCHANGED <<menu, disk, access, refresh, minted, denied, allowed, failures, logins,
                     started, faults, wrong, out, lost, raced>>
  BY DEF InsertRevoked, WithRevoked, IInv, World, tokens, memory, history
<1>2. Fine(req[c]) /\ req[c].op = "logout"
  BY <1>1, AtStep
<1>3. t \in 1 .. minted
  BY <1>2 DEF Fine
<1>4. t \in Tokens /\ t <= minted
  BY <1>1, <1>3, Numbers DEF Types, Tokens
<1> HIDE DEF t
<1>5. db' \in DbType /\ db'.subject = db.subject /\ db'.revoked = db.revoked \cup {t}
  BY <1>1, <1>4 DEF Types, DbType
<1>6. World'
  <2>1. Types'
    BY <1>1, <1>5 DEF Types
  <2>2. Unissued'
    <3>1. ASSUME NEW x \in Tokens, x > minted
          PROVE  x # t
      <4>1. x \in Nat /\ t \in Nat /\ minted \in Nat
        BY <1>1, <1>4, Numbers DEF Types, Tokens
      <4> QED
        BY <1>4, <3>1, <4>1
    <3> QED
      BY <1>1, <1>5, <3>1 DEF Unissued
  <2>3. Revoked'
    BY <1>1, <1>5 DEF Revoked
  <2> QED
    BY <2>1, <2>2, <2>3 DEF World
<1>7. Carries
  BY <1>1, <1>5 DEF Carries, Bound, Types
<1>8. PICK r : r = req'[c]
  OBVIOUS
<1>9. /\ DOMAIN req' = Clients /\ \A d \in Clients \ {c} : req'[d] = req[d]
      /\ r \in RequestType /\ r.step = "commit"
      /\ r.op = req[c].op /\ r.tok = t
  <2>1. "commit" \in Steps
    BY DEF Steps
  <2> QED
    BY <1>1, <1>8, <2>1, GotoFields DEF t
<1>10. Fine(r)'
  <2>1. <<r.step, r.op>> \in Course
    BY <1>2, <1>9 DEF Course
  <2> QED
    BY <1>1, <1>2, <1>3, <1>5, <1>9, <2>1 DEF Fine
<1>11. Throttled'
  BY <1>1, <1>8, <1>9, NoGuess DEF IsGuess
<1> QED
  BY <1>6, <1>7, <1>8, <1>9, <1>10, <1>11, Moved

-----------------------------------------------------------------------------
(* The provider, time and the rest of the world *)

\* No request moves.
LEMMA Stays ==
  ASSUME IInv, World', Carries, Throttled', UNCHANGED req
  PROVE  IInv'
<1>1. minted' \in Nat
  BY Numbers DEF World, Types
<1>2. ASSUME NEW d \in Clients
      PROVE  Fine(req[d])'
  <2>1. PICK r : r = req[d]
    OBVIOUS
  <2>2. Fine(r) /\ Types
    BY <2>1 DEF IInv, Reqs, World
  <2>3. Fine(r)'
    BY <1>1, <2>2, OthersFine
  <2> QED
    BY <2>1, <2>3 DEF Fine
<1> QED
  BY <1>2 DEF IInv, Reqs

\* While no request moves, the throttle counts the same guesses.
LEMMA SameThrottled ==
  ASSUME Throttled, UNCHANGED <<failures, wrong, req>>
  PROVE  Throttled'
BY DEF Throttled, Guessing, Behind

\* A login at the provider is begun.
LEMMA OidcStartKeeps ==
  ASSUME IInv, UNCHANGED menu, OidcStart
  PROVE  IInv'
<1>1. /\ World /\ Types /\ Throttled
      /\ started < MaxStates /\ started' = started + 1
      /\ logins' = [logins EXCEPT ![started + 1] = StateTtl]
      /\ UNCHANGED <<menu, db, disk, access, refresh, minted, denied, allowed, failures, req,
                     faults, wrong, out, lost, raced>>
  BY DEF OidcStart, IInv, World, tokens, history
<1> DEFINE n == started + 1
<1>2. n \in States /\ n \in 0 .. MaxStates
  BY <1>1, Numbers DEF Types, States
<1>3. logins' = [logins EXCEPT ![n] = StateTtl] /\ started' = n
  BY <1>1
<1> HIDE DEF n
<1>4. logins' \in Timers(StateTtl, States)
  BY <1>1, <1>2, <1>3, Numbers DEF Types, Timers
<1>5. World'
  BY <1>1, <1>2, <1>3, <1>4 DEF World, Types, Unissued, Revoked
<1>6. Carries
  BY <1>1, SameCarries
<1> QED
  BY <1>1, <1>5, <1>6, SameThrottled, Stays

\* The provider sends an identity back, for a state that is used up by that.
LEMMA OidcExchangeKeeps ==
  ASSUME IInv, UNCHANGED menu, NEW c \in Clients, NEW s \in States, NEW id \in Subjects,
         OidcExchange(c, s, id)
  PROVE  IInv'
<1> DEFINE q == [Quiet EXCEPT !.step = "provider", !.op = "exchange", !.pass = id]
<1>1. /\ World /\ Types /\ Reqs /\ Throttled /\ At(c, "idle") /\ Ask(c, q)
      /\ logins' = [logins EXCEPT ![s] = 0]
      /\ UNCHANGED <<menu, db, disk, access, refresh, minted, denied, allowed, failures,
                     started, faults, wrong, out, lost, raced>>
  BY DEF OidcExchange, IInv, World, tokens, history
<1>2. q \in RequestType /\ q.op = "exchange" /\ q.pass = id /\ q.step = "provider"
  <2>1. Quiet \in RequestType
    BY QuietFine DEF Fine
  <2> QED
    BY <2>1 DEF RequestType, Ops, Steps
<1> HIDE DEF q
<1>3. Fine(q) /\ ~IsGuess(q)
  BY <1>2 DEF Fine, IsGuess, Course
<1>4. logins' \in Timers(StateTtl, States)
  BY <1>1, Numbers DEF Types, Timers
<1>5. World'
  BY <1>1, <1>4 DEF World, Types, Unissued, Revoked
<1>6. Carries /\ minted' \in Nat
  BY <1>1, SameCarries
<1>7. Fine(q)'
  BY <1>1, <1>3, <1>6, OthersFine
<1>8. /\ DOMAIN req' = Clients /\ \A d \in Clients \ {c} : req'[d] = req[d]
      /\ req'[c] = q
  BY <1>1, AskFields
<1>9. Throttled'
  BY <1>1, <1>3, <1>8, NoGuess
<1> QED
  BY <1>5, <1>6, <1>7, <1>8, <1>9, Moved

\* Time passes: what the cache holds of a token goes no later than the time
\* that a stale entry may last.
LEMMA TickKeeps ==
  ASSUME IInv, UNCHANGED menu, Tick
  PROVE  IInv'
<1>1. /\ Types /\ Unissued /\ Revoked /\ Reqs /\ Throttled /\ Still
      /\ access' = [t \in Tokens |-> IF access[t] = 0 THEN 0 ELSE access[t] - 1]
      /\ refresh' = [t \in Tokens |-> IF refresh[t] = 0 THEN 0 ELSE refresh[t] - 1]
      /\ allowed' = [t \in Tokens |-> IF allowed[t] = 0 THEN 0 ELSE allowed[t] - 1]
      /\ logins' = [s \in States |-> IF logins[s] = 0 THEN 0 ELSE logins[s] - 1]
      /\ out' = [t \in Tokens |-> IF out[t] \in 1 .. NegativeTtl THEN out[t] - 1 ELSE out[t]]
      /\ UNCHANGED <<menu, db, disk, minted, denied, started, req, faults, lost, raced>>
  BY DEF Tick, AllowedAfterTick, IInv, World
<1>2. /\ access' \in Timers(Life, Tokens)
      /\ \A t \in Tokens : (access'[t] > 0 => access[t] > 0) /\ (access[t] = 0 => access'[t] = 0)
  <2>1. access \in Timers(Life, Tokens)
    BY <1>1 DEF Types
  <2> QED
    BY <1>1, <2>1, Numbers DEF Timers
<1>3. /\ refresh' \in Timers(RefreshLife, Tokens)
      /\ \A t \in Tokens : refresh[t] = 0 => refresh'[t] = 0
  <2>1. refresh \in Timers(RefreshLife, Tokens)
    BY <1>1 DEF Types
  <2> QED
    BY <1>1, <2>1, Numbers DEF Timers
<1>4. /\ allowed' \in Timers(NegativeTtl, Tokens)
      /\ \A t \in Tokens : allowed'[t] = 0 \/ allowed'[t] = allowed[t] - 1
  <2>1. allowed \in Timers(NegativeTtl, Tokens)
    BY <1>1 DEF Types
  <2> QED
    BY <1>1, <2>1, Numbers DEF Timers
<1>5. logins' \in Timers(StateTtl, States)
  <2>1. logins \in Timers(StateTtl, States)
    BY <1>1 DEF Types
  <2> QED
    BY <1>1, <2>1, Numbers DEF Timers
<1>6. /\ out' \in Timers(NegativeTtl + 1, Tokens)
      /\ \A t \in Tokens : \/ out[t] = NegativeTtl + 1 /\ out'[t] = NegativeTtl + 1
                           \/ out[t] = 0 /\ out'[t] = 0
                           \/ out[t] \in 1 .. NegativeTtl /\ out'[t] = out[t] - 1
  <2>1. out \in Timers(NegativeTtl + 1, Tokens)
    BY <1>1 DEF Types
  <2>2. ASSUME NEW t \in Tokens
        PROVE  /\ \/ out[t] = NegativeTtl + 1 /\ out'[t] = NegativeTtl + 1
                  \/ out[t] = 0 /\ out'[t] = 0
                  \/ out[t] \in 1 .. NegativeTtl /\ out'[t] = out[t] - 1
               /\ out'[t] \in 0 .. NegativeTtl + 1
    <3>1. out[t] \in 0 .. NegativeTtl + 1
      BY <2>1 DEF Timers
    <3>2. out'[t] = IF out[t] \in 1 .. NegativeTtl THEN out[t] - 1 ELSE out[t]
      BY <1>1
    <3> QED
      BY <3>1, <3>2, Numbers
  <2> QED
    BY <1>1, <2>2 DEF Timers
<1>7. World'
  <2>1. Types'
    BY <1>1, <1>2, <1>3, <1>4, <1>5, <1>6 DEF Types
  <2>2. Unissued'
    BY <1>1, <1>2, <1>3, <1>6, Numbers DEF Unissued
  <2>3. Revoked'
    <3>1. ASSUME NEW t \in Tokens, out'[t] <= NegativeTtl, t \notin lost
          PROVE  /\ allowed'[t] <= out'[t]
                 /\ access'[t] > 0 => t \in db.revoked \cap disk.revoked
      <4>1. out[t] <= NegativeTtl
        BY <1>6, <3>1, Numbers
      <4>2. allowed[t] <= out[t] /\ (access[t] > 0 => t \in db.revoked \cap disk.revoked)
        BY <1>1, <3>1, <4>1 DEF Revoked
      <4>3. allowed[t] \in Nat /\ out'[t] \in Nat
        BY <1>1, <1>6, Numbers DEF Types, Timers
      <4>4. allowed'[t] <= out'[t]
        BY <1>4, <1>6, <4>1, <4>2, <4>3, Numbers
      <4> QED
        BY <1>2, <4>2, <4>4
    <3> QED
      BY <1>1, <3>1 DEF Revoked
  <2> QED
    BY <2>1, <2>2, <2>3 DEF World
<1>8. ASSUME NEW d \in Clients
      PROVE  Fine(req[d])'
  <2>1. PICK r : r = req[d]
    OBVIOUS
  <2>2. Fine(r) /\ r.step \in {"idle", "provider", "in"}
    BY <1>1, <2>1 DEF Reqs, Still
  <2>3. Fine(r)'
    BY <1>1, <2>2 DEF Fine
  <2> QED
    BY <1>1, <2>1, <2>3 DEF Fine
<1>9. Reqs'
  BY <1>1, <1>8 DEF Reqs
<1>10. Throttled'
  BY <1>1, TickCounts DEF Tick
<1> QED
  BY <1>7, <1>9, <1>10 DEF IInv

\* What another call rolls back is remembered as lost or raced.
LEMMA ForeignRollbackKeeps ==
  ASSUME IInv, UNCHANGED menu, ForeignRollback
  PROVE  IInv'
<1>1. /\ Types /\ Unissued /\ Revoked /\ Throttled
      /\ faults < menu.faults /\ faults' = faults + 1
      /\ db' = disk
      /\ lost' = lost \cup (db.revoked \ disk.revoked)
      /\ raced' = raced \cup ({db.subject} \ {"none", disk.subject})
      /\ UNCHANGED <<menu, disk, access, refresh, minted, denied, allowed, failures, logins,
                     started, req, wrong, out>>
  BY DEF ForeignRollback, IInv, World, tokens, memory
<1>2. Types'
  <2>1. menu.faults \in Nat
    BY <1>1, AuthAssumption DEF Types
  <2>2. faults' \in 0 .. menu.faults
    BY <1>1, <2>1 DEF Types
  <2> QED
    BY <1>1, <2>2 DEF Types
<1>3. World'
  BY <1>1, <1>2 DEF World, Unissued, Revoked
<1>4. Carries
  <2>1. \A x \in Subjects : x \in Bound => x \in Bound'
    BY <1>1, AuthAssumption DEF Bound
  <2>2. minted <= minted'
    BY <1>1, Numbers DEF Types
  <2> QED
    BY <1>1, <2>1, <2>2 DEF Carries
<1> QED
  BY <1>1, <1>3, <1>4, SameThrottled, Stays

\* No request is under way and no failure counted.
LEMMA AllQuiet ==
  ASSUME req' = [c \in Clients |-> Quiet], failures' = [a \in Addresses |-> << >>],
         wrong' = failures'
  PROVE  Reqs' /\ Throttled'
<1>1. Reqs'
  <2>1. ASSUME NEW d \in Clients
        PROVE  Fine(req[d])'
    <3>1. req'[d] = Quiet
      OBVIOUS
    <3> QED
      BY <3>1, QuietFine DEF Fine
  <2> QED
    BY <2>1 DEF Reqs
<1>2. << >> \in Seq(1 .. Window) /\ Len(<< >>) = 0 /\ InOrder(<< >>)
  BY DEF InOrder
<1>3. ASSUME NEW a \in Addresses
      PROVE  0 + Cardinality(Guessing(a)') <= Crowd(a)
  <2> DEFINE h == Cardinality(Guessing(a)')
             b == Cardinality(Behind(a))
  <2>1. b \in Nat /\ Crowd(a) = MaxAttempts - 1 + b /\ h \in Nat /\ h <= b
    BY Count
  <2> HIDE DEF h, b
  <2>2. 0 + h <= Crowd(a)
    BY <2>1, Numbers
  <2> QED
    BY <2>2 DEF h
<1>4. Throttled'
  <2>1. failures' \in [Addresses -> Seq(1 .. Window)] /\ \A a \in Addresses : failures'[a] = << >>
    BY <1>2
  <2> QED
    BY <1>2, <1>3, <2>1 DEF Throttled
<1> QED
  BY <1>1, <1>4

\* After a restart the cache is empty, and the rows that are gone are those of
\* tokens that have expired.
LEMMA RestartKeeps ==
  ASSUME IInv, UNCHANGED menu, Restart
  PROVE  IInv'
<1>1. /\ Types /\ Unissued /\ Revoked
      /\ faults < menu.faults /\ faults' = faults + 1
      /\ db' = disk' /\ denied' = {} /\ allowed' = [t \in Tokens |-> 0]
      /\ failures' = [a \in Addresses |-> << >>] /\ wrong' = failures'
      /\ logins' = [s \in States |-> 0]
      /\ req' = [c \in Clients |-> Quiet]
      /\ UNCHANGED <<menu, access, refresh, minted, started, out, lost, raced>>
  BY DEF Restart, IInv, World, tokens
<1>2. PICK gone \in SUBSET {t \in disk.revoked : access[t] = 0} :
        disk' = [disk EXCEPT !.revoked = @ \ gone]
  BY DEF Restart
<1>3. /\ disk' \in DbType /\ disk'.revoked \subseteq disk.revoked
      /\ \A t \in disk.revoked : access[t] > 0 => t \in disk'.revoked
  <2>1. disk \in DbType
    BY <1>1 DEF Types
  <2>2. \A t \in gone : ~(access[t] > 0)
    BY Numbers
  <2> QED
    BY <1>2, <2>1, <2>2 DEF DbType
<1>4. Types'
  <2>1. menu.faults \in Nat
    BY <1>1, AuthAssumption DEF Types
  <2>2. faults' \in 0 .. menu.faults
    BY <1>1, <2>1 DEF Types
  <2>3. allowed' \in Timers(NegativeTtl, Tokens) /\ logins' \in Timers(StateTtl, States)
    BY <1>1, Numbers DEF Timers
  <2> QED
    BY <1>1, <1>3, <2>2, <2>3 DEF Types
<1>5. Unissued'
  BY <1>1, <1>3 DEF Unissued
<1>6. Revoked'
  <2>1. \A t \in Tokens : out[t] \in Nat
    BY <1>1, Numbers DEF Types, Timers
  <2> QED
    BY <1>1, <1>3, <2>1 DEF Revoked
<1> QED
  BY <1>1, <1>4, <1>5, <1>6, AllQuiet DEF IInv, World

\* The command line writes the password.
LEMMA CliSetPasswordKeeps ==
  ASSUME IInv, UNCHANGED menu, NEW n \in Passwords, CliSetPassword(n)
  PROVE  IInv'
<1>1. /\ Types /\ Unissued /\ Revoked /\ Throttled
      /\ db = disk /\ db' = [db EXCEPT !.hash = n] /\ disk' = db'
      /\ UNCHANGED <<menu, access, refresh, minted, denied, allowed, failures, logins,
                     started, req, faults, wrong, out, lost, raced>>
  BY DEF CliSetPassword, IInv, World, tokens, memory, history
<1>2. db' \in DbType /\ db'.revoked = db.revoked /\ db'.subject = db.subject
  <2>1. db \in DbType
    BY <1>1 DEF Types
  <2> QED
    BY <1>1, <2>1 DEF DbType
<1>3. World'
  BY <1>1, <1>2 DEF World, Types, Unissued, Revoked
<1>4. Carries
  BY <1>1, <1>2, Numbers DEF Carries, Bound, Types
<1> QED
  BY <1>1, <1>3, <1>4, SameThrottled, Stays

-----------------------------------------------------------------------------
(* The invariant *)

\* The service starts with an empty cache, and as many pairs as were issued.
LEMMA IInvInit ==
  ASSUME Init
  PROVE  IInv
<1>1. menu \in Menus /\ menu.issued \in 0 .. MaxTokens /\ menu.faults \in Nat
  BY AuthAssumption DEF Init
<1>2. Types
  <2>1. db \in DbType
    BY AuthAssumption DEF Init, DbType
  <2>2. /\ access \in Timers(Life, Tokens) /\ refresh \in Timers(RefreshLife, Tokens)
        /\ allowed \in Timers(NegativeTtl, Tokens) /\ logins \in Timers(StateTtl, States)
        /\ out \in Timers(NegativeTtl + 1, Tokens)
    BY Numbers DEF Init, Timers
  <2>3. started \in 0 .. MaxStates /\ faults \in 0 .. menu.faults /\ minted \in 0 .. MaxTokens
    BY <1>1, Numbers DEF Init
  <2> QED
    BY <1>1, <2>1, <2>2, <2>3 DEF Init, Types
<1>3. Unissued
  <2>1. ASSUME NEW t \in Tokens, t > minted
        PROVE  ~(t <= minted)
    BY <1>1, <2>1, Numbers DEF Init, Tokens
  <2> QED
    BY <2>1 DEF Init, Unissued
<1>4. Revoked
  BY Numbers DEF Init, Revoked
<1>5. Reqs
  BY QuietFine DEF Init, Reqs
<1>6. Throttled
  <2>1. << >> \in Seq(1 .. Window) /\ Len(<< >>) = 0 /\ InOrder(<< >>)
    BY DEF InOrder
  <2>2. ASSUME NEW a \in Addresses
        PROVE  0 + Cardinality(Guessing(a)) <= Crowd(a)
    <3> DEFINE g == Cardinality(Guessing(a))
               b == Cardinality(Behind(a))
    <3>1. b \in Nat /\ Crowd(a) = MaxAttempts - 1 + b /\ g \in Nat /\ g <= b
      BY Count
    <3> HIDE DEF g, b
    <3>2. 0 + g <= Crowd(a)
      BY <3>1, Numbers
    <3> QED
      BY <3>2 DEF g
  <2>3. /\ failures \in [Addresses -> Seq(1 .. Window)] /\ wrong = failures
        /\ \A a \in Addresses : failures[a] = << >>
    BY <2>1 DEF Init
  <2> QED
    BY <2>1, <2>2, <2>3 DEF Throttled
<1> QED
  BY <1>2, <1>3, <1>4, <1>5, <1>6 DEF IInv, World

\* Every step of a request under way keeps the invariant.
LEMMA StepKeeps ==
  ASSUME IInv, UNCHANGED menu, NEW c \in Clients, Step(c)
  PROVE  IInv'
<1>1. CASE ReadUser(c)
  BY <1>1, ReadUserKeeps
<1>2. CASE Verify(c)
  <2>1. VerifyLogin(c) \/ VerifyInitial(c) \/ VerifyChange(c) \/ VerifyIdentity(c)
    BY <1>2 DEF Verify
  <2> QED
    BY <1>2, <2>1, VerifyGuessKeeps, VerifyChangeKeeps, VerifyIdentityKeeps
<1>3. CASE Write(c)
  BY <1>3, WriteKeeps
<1>4. CASE Commit(c)
  BY <1>4, CommitKeeps
<1>5. CASE IssueTokens(c)
  BY <1>5, IssueTokensKeeps
<1>6. CASE Lookup(c)
  BY <1>6, LookupKeeps
<1>7. CASE Learn(c)
  BY <1>7, LearnKeeps
<1>8. CASE Account(c)
  BY <1>8, AccountKeeps
<1>9. CASE Leave(c)
  BY <1>9, LeaveKeeps
<1>10. CASE InsertRevoked(c)
  BY <1>10, InsertRevokedKeeps
<1>11. CASE OidcValidate(c)
  BY <1>11, OidcValidateKeeps
<1> QED
  BY <1>1, <1>2, <1>3, <1>4, <1>5, <1>6, <1>7, <1>8, <1>9, <1>10, <1>11 DEF Step

\* Every request that arrives keeps it.
LEMMA RequestKeeps ==
  ASSUME IInv, UNCHANGED menu, NEW c \in Clients, Request(c)
  PROVE  IInv'
<1>1. ASSUME NEW p \in Passwords, Login(c, p)
      PROVE  IInv'
  BY <1>1, LoginKeeps
<1>2. ASSUME NEW p \in Passwords, NEW n \in Passwords, SetInitialPassword(c, p, n)
      PROVE  IInv'
  BY <1>2, SetInitialPasswordKeeps
<1>3. ASSUME NEW t \in Tokens, Use(c, t) \/ Watch(c, t) \/ Refresh(c, t) \/ Logout(c, t)
      PROVE  IInv'
  BY <1>3, UseKeeps, WatchKeeps, RefreshKeeps, LogoutKeeps
<1>4. ASSUME NEW t \in Tokens, NEW p \in Passwords, NEW n \in Passwords \ {p},
             ChangePassword(c, t, p, n)
      PROVE  IInv'
  BY <1>4, ChangePasswordKeeps
<1>5. ASSUME NEW s \in States, NEW id \in Subjects, OidcExchange(c, s, id)
      PROVE  IInv'
  BY <1>5, OidcExchangeKeeps
<1> QED
  BY <1>1, <1>2, <1>3, <1>4, <1>5 DEF Request

\* Every step of the service keeps it.
LEMMA IInvStep ==
  ASSUME IInv, [Next]_vars
  PROVE  IInv'
<1>1. CASE UNCHANGED vars
  <2>1. UNCHANGED <<db, disk, access, refresh, minted, denied, allowed, failures, logins, started,
                    menu, req, faults, wrong, out, lost, raced>>
    BY <1>1 DEF vars, tokens, memory, history
  <2>2. World'
    BY <2>1 DEF IInv, World, Types, Unissued, Revoked
  <2>3. Carries
    BY <2>1, SameCarries DEF IInv
  <2> QED
    BY <2>1, <2>2, <2>3, SameThrottled, Stays DEF IInv
<1>2. CASE Next
  <2>1. UNCHANGED menu
    BY <1>2 DEF Next
  <2>2. ASSUME NEW c \in Clients, Request(c) \/ Step(c)
        PROVE  IInv'
    BY <2>1, <2>2, RequestKeeps, StepKeeps
  <2>3. ASSUME NEW n \in Passwords, CliSetPassword(n)
        PROVE  IInv'
    BY <2>1, <2>3, CliSetPasswordKeeps
  <2>4. CASE OidcStart \/ Tick \/ ForeignRollback \/ Restart
    BY <2>1, <2>4, OidcStartKeeps, TickKeeps, ForeignRollbackKeeps, RestartKeeps
  <2> QED
    BY <1>2, <2>2, <2>3, <2>4 DEF Next
<1> QED
  BY <1>1, <1>2

\* The invariant says what the properties say.
LEMMA IInvSays ==
  ASSUME IInv
  PROVE  Inv /\ GuessesBounded
<1>1. World /\ Types /\ Unissued /\ Throttled /\ Reqs
  BY DEF IInv, World
<1>2. TypeOK
  <2>1. {db, disk} \subseteq [hash : Passwords, must : BOOLEAN,
                              subject : Subjects \cup {"none"}, revoked : SUBSET Tokens]
    BY <1>1 DEF Types, DbType
  <2>2. \A t \in Tokens : t > minted => access[t] = 0 /\ t \notin denied \cup db.revoked
    BY <1>1 DEF Unissued
  <2>3. \A a \in Addresses : failures[a] \in Seq(1 .. Window) /\ wrong[a] \in Seq(1 .. Window)
    BY <1>1 DEF Throttled
  <2>4. \A c \in Clients : req[c].step = "idle" <=> req[c] = Quiet
    <3>1. Quiet.step = "idle"
      BY DEF Quiet
    <3> QED
      BY <1>1, <3>1 DEF Reqs, Fine
  <2> QED
    BY <1>1, <2>1, <2>2, <2>3, <2>4 DEF Types, TypeOK
<1>3. IssuedToBound
  BY <1>1 DEF IssuedToBound, Reqs, Fine, Bound, At
<1>4. GuessesBounded
  <2>1. ASSUME NEW a \in Addresses
        PROVE  Len(wrong[a]) <= Crowd(a)
    <3> DEFINE n == Len(failures[a])
               g == Cardinality(Guessing(a))
    <3>1. wrong[a] = failures[a] /\ n \in Nat /\ n + g <= Crowd(a)
      BY <1>1 DEF Throttled
    <3>2. g \in Nat /\ Crowd(a) \in Int
      BY Count, Numbers
    <3> HIDE DEF n, g
    <3>3. n <= Crowd(a)
      BY <3>1, <3>2
    <3> QED
      BY <3>1, <3>3 DEF n
  <2> QED
    BY <2>1 DEF GuessesBounded
<1> QED
  BY <1>2, <1>3, <1>4 DEF Inv

\* The invariant holds throughout.
LEMMA IInvAlways == Spec => []IInv
<1>1. Init => IInv
  BY IInvInit
<1>2. IInv /\ [Next]_vars => IInv'
  BY IInvStep
<1> QED
  BY <1>1, <1>2, PTL DEF Spec

-----------------------------------------------------------------------------
(* What the cache holds *)

\* What is marked or forgotten stays so, and out goes on only for what is marked.
Holds ==
  /\ forgotten \subseteq forgotten' /\ denied \cup forgotten \subseteq denied' \cup forgotten'
  /\ \A t \in Tokens :
       out'[t] <= NegativeTtl => out[t] <= NegativeTtl \/ t \in denied' \cup forgotten'

\* The request of c is answered or goes on with its token.
GoesOn(c) ==
  /\ \A d \in Clients \ {c} : req'[d] = req[d]
  /\ \/ req'[c] = Quiet
     \/ req'[c].op = req[c].op /\ req'[c].tok = req[c].tok /\ req'[c].late = req[c].late

\* Who knew of a token goes on knowing of it.
LEMMA KnowsStill ==
  ASSUME Holds, NEW r, NEW q, Knows(r),
         q = Quiet \/ (q.op = r.op /\ q.tok = r.tok /\ q.late = r.late)
  PROVE  /\ q.op = "logout" => q.tok \in denied' \cup forgotten'
         /\ q.op = "watch" /\ q.late => q.tok \in forgotten'
<1>1. CASE q = Quiet
  <2>1. q.op = "none"
    BY <1>1 DEF Quiet
  <2> QED
    BY <2>1
<1>2. CASE q.op = r.op /\ q.tok = r.tok /\ q.late = r.late
  BY <1>2 DEF Holds, Knows
<1> QED
  BY <1>1, <1>2

LEMMA HeldBy ==
  ASSUME Held, Holds, NEW c \in Clients, \A d \in Clients \ {c} : req'[d] = req[d],
         /\ req'[c].op = "logout" => req'[c].tok \in denied' \cup forgotten'
         /\ req'[c].op = "watch" /\ req'[c].late => req'[c].tok \in forgotten'
  PROVE  Held'
<1>1. Marked'
  BY DEF Held, Holds, Marked
<1>2. ASSUME NEW d \in Clients
      PROVE  Knows(req[d])'
  <2>1. CASE d = c
    BY <2>1 DEF Knows
  <2>2. CASE d # c
    <3>1. req'[d] = req[d] /\ Knows(req[d])
      BY <2>2 DEF Held
    <3> QED
      BY <3>1, KnowsStill DEF Knows
  <2> QED
    BY <2>1, <2>2
<1> QED
  BY <1>1, <1>2 DEF Held

\* No step of a request changes what it is.
LEMMA StepGoesOn ==
  ASSUME Reqs, NEW c \in Clients, Step(c)
  PROVE  GoesOn(c)
<1>1. ASSUME NEW s \in Steps, Goto(c, s)
      PROVE  GoesOn(c)
  BY <1>1, GotoFields DEF GoesOn
<1>2. ASSUME Respond(c)
      PROVE  GoesOn(c)
  BY <1>2, RespondFields DEF GoesOn
<1>3. ASSUME NEW row, NEW s, Receive(c, row, s)
      PROVE  GoesOn(c)
  <2>1. req[c] \in RequestType /\ DOMAIN req = Clients
    BY DEF Reqs, Fine
  <2> QED
    BY <1>3, <2>1 DEF Receive, GoesOn, RequestType
<1>4. {"write", "issue", "commit", "account", "in", "user"} \subseteq Steps
  BY DEF Steps
<1>5. CASE ReadUser(c) \/ Lookup(c)
  BY <1>3, <1>5 DEF ReadUser, Lookup
<1>6. CASE Verify(c)
  <2>1. CASE VerifyLogin(c)
    BY <1>1, <1>2, <1>4, <2>1 DEF VerifyLogin
  <2>2. CASE VerifyInitial(c)
    BY <1>1, <1>2, <1>4, <2>2 DEF VerifyInitial
  <2>3. CASE VerifyChange(c)
    BY <1>1, <1>2, <1>4, <2>3 DEF VerifyChange
  <2>4. CASE VerifyIdentity(c)
    BY <1>1, <1>2, <1>4, <2>4 DEF VerifyIdentity
  <2> QED
    BY <1>6, <2>1, <2>2, <2>3, <2>4 DEF Verify
<1>7. CASE Write(c) \/ InsertRevoked(c)
  BY <1>1, <1>4, <1>7 DEF Write, InsertRevoked
<1>8. CASE Commit(c)
  BY <1>1, <1>2, <1>4, <1>8 DEF Commit
<1>9. CASE IssueTokens(c) \/ Leave(c) \/ OidcValidate(c)
  BY <1>1, <1>2, <1>4, <1>9 DEF IssueTokens, Leave, OidcValidate
<1>10. CASE Learn(c)
  BY <1>1, <1>2, <1>4, <1>10 DEF Learn
<1>11. CASE Account(c)
  BY <1>1, <1>2, <1>4, <1>11 DEF Account
<1> QED
  BY <1>5, <1>6, <1>7, <1>8, <1>9, <1>10, <1>11 DEF Step

\* Nor does a step lose what is marked: a change of the password forgets it.
LEMMA StepHolds ==
  ASSUME IInv, Held, NEW c \in Clients, Step(c)
  PROVE  Holds
<1>1. ASSUME UNCHANGED <<denied, forgotten, out>>
      PROVE  Holds
  BY <1>1 DEF Holds
<1>2. CASE ReadUser(c) \/ Lookup(c) \/ IssueTokens(c) \/ Account(c) \/ Leave(c) \/ InsertRevoked(c)
             \/ OidcValidate(c)
  BY <1>1, <1>2 DEF ReadUser, Lookup, IssueTokens, Account, Leave, InsertRevoked, OidcValidate,
                    memory, history
<1>3. CASE Verify(c)
  BY <1>1, <1>3 DEF Verify
<1>4. CASE Write(c)
  BY <1>1, <1>4 DEF Write, memory
<1>5. CASE Learn(c)
  <2>1. UNCHANGED <<forgotten, out>> /\ denied \subseteq denied'
    BY <1>5 DEF Learn, MarkRevoked, MarkNotRevoked, history
  <2> QED
    BY <2>1 DEF Holds
<1>6. CASE Commit(c)
  <2>1. CASE req[c].op # "change" /\ UNCHANGED out
    <3>1. UNCHANGED <<denied, forgotten>>
      BY <1>6, <2>1 DEF Commit
    <3> QED
      BY <1>1, <2>1, <3>1
  <2>2. CASE req[c].op = "change"
    <3>1. forgotten' = forgotten \cup denied /\ UNCHANGED out
      BY <1>6, <2>2 DEF Commit
    <3> QED
      BY <3>1 DEF Holds
  <2>3. CASE req[c].op = "logout"
    <3>1. /\ UNCHANGED <<denied, forgotten>>
          /\ out' = [out EXCEPT ![req[c].tok] = IF @ > NegativeTtl THEN NegativeTtl ELSE @]
      BY <1>6, <2>3 DEF Commit
    <3>2. req[c].tok \in denied \cup forgotten
      BY <2>3 DEF Held, Knows
    <3>3. \A t \in Tokens : t # req[c].tok => out'[t] = out[t]
      BY <3>1 DEF IInv, World, Types, Timers
    <3> QED
      BY <3>1, <3>2, <3>3 DEF Holds
  <2> QED
    BY <1>6, <2>1, <2>2, <2>3 DEF Commit
<1> QED
  BY <1>2, <1>3, <1>4, <1>5, <1>6 DEF Step

\* A logout marks its token before anything else; what is asked for with a token
\* that is not in the cache, late, is asked for after the cache was emptied.
LEMMA RequestHeld ==
  ASSUME IInv, Held, NEW c \in Clients, Request(c)
  PROVE  Held'
<1>1. Reqs
  BY DEF IInv
<1>2. ASSUME NEW r, Ask(c, r), Holds, r.op = "logout" => r.tok \in denied' \cup forgotten',
             r.op = "watch" /\ r.late => r.tok \in forgotten'
      PROVE  Held'
  BY <1>1, <1>2, AskFields, HeldBy
<1>3. ASSUME UNCHANGED <<denied, forgotten, out>>
      PROVE  Holds
  BY <1>3 DEF Holds
<1>4. ASSUME UNCHANGED <<denied, forgotten, out>>, UNCHANGED req
      PROVE  Held'
  BY <1>4 DEF Held, Marked, Knows
<1>5. ASSUME UNCHANGED <<denied, forgotten, out>>, NEW r, Ask(c, r), r.op \notin {"logout", "watch"}
      PROVE  Held'
  BY <1>2, <1>3, <1>5
<1>6. ASSUME NEW p \in Passwords, Login(c, p)
      PROVE  Held'
  <2> DEFINE r == [Quiet EXCEPT !.step = "user", !.op = "login", !.pass = p]
  <2>1. UNCHANGED <<denied, forgotten, out>> /\ (UNCHANGED req \/ Ask(c, r))
    BY <1>6 DEF Login, history
  <2>2. r.op = "login"
    BY DEF Quiet
  <2> HIDE DEF r
  <2> QED
    BY <1>4, <1>5, <2>1, <2>2
<1>7. ASSUME NEW p \in Passwords, NEW n \in Passwords, SetInitialPassword(c, p, n)
      PROVE  Held'
  <2> DEFINE r == [Quiet EXCEPT !.step = "user", !.op = "initial", !.pass = p, !.new = n]
  <2>1. UNCHANGED <<denied, forgotten, out>> /\ (UNCHANGED req \/ Ask(c, r))
    BY <1>7 DEF SetInitialPassword, history
  <2>2. r.op = "initial"
    BY DEF Quiet
  <2> HIDE DEF r
  <2> QED
    BY <1>4, <1>5, <2>1, <2>2
<1>8. ASSUME NEW t, NEW q \in RequestType, q.op \in {"use", "change"}, Present(c, t, q)
      PROVE  Held'
  <2>1. UNCHANGED <<denied, forgotten, out>>
    BY <1>8 DEF Present, memory, history
  <2>2. PICK r : r = [q EXCEPT !.step = IF allowed[t] > 0 THEN "account" ELSE "lookup",
                               !.tok = t, !.late = (out[t] = 0)]
    OBVIOUS
  <2>3. Ask(c, r)
    BY <1>8, <2>2, Zenon DEF Present
  <2>4. r.op = q.op
    BY <2>2 DEF RequestType
  <2> QED
    BY <1>5, <1>8, <2>1, <2>3, <2>4
<1>9. ASSUME NEW t \in Tokens, Watch(c, t)
      PROVE  Held'
  <2> DEFINE r == [Quiet EXCEPT !.step = "account", !.op = "watch", !.tok = t, !.late = (out[t] = 0)]
  <2>1. UNCHANGED <<denied, forgotten, out>> /\ Ask(c, r) /\ t \notin denied
    BY <1>9 DEF Watch, memory, history
  <2>2. r.op = "watch" /\ r.tok = t /\ r.late = (out[t] = 0)
    BY DEF Quiet
  <2>3. out[t] = 0 => t \in forgotten
    BY <2>1, Numbers DEF Held, Marked
  <2> HIDE DEF r
  <2> QED
    BY <1>2, <1>3, <2>1, <2>2, <2>3
<1>10. ASSUME NEW t \in Tokens, Refresh(c, t)
       PROVE  Held'
  <2> DEFINE r == [Quiet EXCEPT !.step = "account", !.op = "refresh", !.tok = t]
  <2>1. UNCHANGED <<denied, forgotten, out>> /\ Ask(c, r)
    BY <1>10 DEF Refresh, memory, history
  <2>2. r.op = "refresh"
    BY DEF Quiet
  <2> HIDE DEF r
  <2> QED
    BY <1>5, <2>1, <2>2
<1>11. ASSUME NEW t \in Tokens, Logout(c, t)
       PROVE  Held'
  <2> DEFINE r == [Quiet EXCEPT !.step = "insert", !.op = "logout", !.tok = t]
  <2>1. UNCHANGED <<forgotten, out>> /\ denied' = denied \cup {t} /\ Ask(c, r)
    BY <1>11 DEF Logout, MarkRevoked, history
  <2>2. r.op = "logout" /\ r.tok = t
    BY DEF Quiet
  <2>3. Holds
    BY <2>1 DEF Holds
  <2> HIDE DEF r
  <2> QED
    BY <1>2, <2>1, <2>2, <2>3
<1>12. ASSUME NEW s \in States, NEW id \in Subjects, OidcExchange(c, s, id)
       PROVE  Held'
  <2> DEFINE r == [Quiet EXCEPT !.step = "provider", !.op = "exchange", !.pass = id]
  <2>1. UNCHANGED <<denied, forgotten, out>> /\ Ask(c, r)
    BY <1>12 DEF OidcExchange, history
  <2>2. r.op = "exchange"
    BY DEF Quiet
  <2> HIDE DEF r
  <2> QED
    BY <1>5, <2>1, <2>2
<1>13. ASSUME NEW t \in Tokens, Use(c, t)
       PROVE  Held'
  <2> DEFINE q == [Quiet EXCEPT !.op = "use"]
  <2>1. q \in RequestType /\ q.op = "use"
    BY QuietFine DEF Fine, RequestType, Ops
  <2>2. Present(c, t, q)
    BY <1>13 DEF Use
  <2> HIDE DEF q
  <2> QED
    BY <1>8, <2>1, <2>2
<1>14. ASSUME NEW t \in Tokens, NEW p \in Passwords, NEW n \in Passwords \ {p},
              ChangePassword(c, t, p, n)
       PROVE  Held'
  <2> DEFINE q == [Quiet EXCEPT !.op = "change", !.pass = p, !.new = n]
  <2>1. q \in RequestType /\ q.op = "change"
    BY QuietFine DEF Fine, RequestType, Ops
  <2>2. Present(c, t, q)
    BY <1>14 DEF ChangePassword
  <2> HIDE DEF q
  <2> QED
    BY <1>8, <2>1, <2>2
<1> QED
  BY <1>6, <1>7, <1>9, <1>10, <1>11, <1>12, <1>13, <1>14 DEF Request

\* At the start no one is out, and nothing is asked for.
LEMMA HeldInit ==
  ASSUME Init
  PROVE  Held
<1>1. Marked
  BY Numbers DEF Init, Marked
<1>2. \A c \in Clients : req[c].op = "none"
  BY DEF Init, Quiet
<1> QED
  BY <1>1, <1>2 DEF Held, Knows

LEMMA HeldStep ==
  ASSUME IInv, Held, [Next]_vars
  PROVE  Held'
<1>1. ASSUME UNCHANGED <<denied, forgotten, out, req>>
      PROVE  Held'
  BY <1>1 DEF Held, Marked, Knows
<1>2. CASE UNCHANGED vars
  BY <1>1, <1>2 DEF vars, memory, history
<1>3. ASSUME NEW c \in Clients, Step(c)
      PROVE  Held'
  <2>1. Holds /\ GoesOn(c) /\ Knows(req[c])
    BY <1>3, StepHolds, StepGoesOn DEF IInv, Held
  <2>2. \A d \in Clients \ {c} : req'[d] = req[d]
    BY <2>1 DEF GoesOn
  <2>3. \/ req'[c] = Quiet
        \/ req'[c].op = req[c].op /\ req'[c].tok = req[c].tok /\ req'[c].late = req[c].late
    BY <2>1 DEF GoesOn
  <2>4. /\ req'[c].op = "logout" => req'[c].tok \in denied' \cup forgotten'
        /\ req'[c].op = "watch" /\ req'[c].late => req'[c].tok \in forgotten'
    BY <2>1, <2>3, KnowsStill
  <2> QED
    BY <2>1, <2>2, <2>4, HeldBy
<1>4. CASE OidcStart
  BY <1>1, <1>4 DEF OidcStart, history
<1>5. ASSUME NEW n \in Passwords, CliSetPassword(n)
      PROVE  Held'
  BY <1>1, <1>5 DEF CliSetPassword, memory, history
<1>6. CASE ForeignRollback
  BY <1>1, <1>6 DEF ForeignRollback, memory
<1>7. CASE Tick
  <2>1. /\ UNCHANGED <<denied, forgotten, req>>
        /\ out' = [t \in Tokens |-> IF out[t] \in 1 .. NegativeTtl THEN out[t] - 1 ELSE out[t]]
    BY <1>7 DEF Tick
  <2>2. \A t \in Tokens : out'[t] <= NegativeTtl => out[t] <= NegativeTtl
    BY <2>1, Numbers
  <2> QED
    BY <2>1, <2>2 DEF Held, Marked, Knows
<1>8. CASE Restart
  <2>1. forgotten' = forgotten \cup denied /\ UNCHANGED out /\ req' = [c \in Clients |-> Quiet]
    BY <1>8 DEF Restart
  <2>2. \A c \in Clients : req'[c].op = "none"
    BY <2>1 DEF Quiet
  <2> QED
    BY <2>1, <2>2 DEF Held, Marked, Knows
<1> QED
  BY <1>2, <1>3, <1>4, <1>5, <1>6, <1>7, <1>8, RequestHeld DEF Next

\* Who is let in late holds a token whose row is lost, or which the cache forgot.
LEMMA HeldSays ==
  ASSUME IInv, Held
  PROVE  RevocationTakesHold
<1>1. ASSUME NEW c \in Clients, At(c, "in"), req[c].late
      PROVE  \/ req[c].op = "use" /\ req[c].tok \in lost
             \/ req[c].op = "watch" /\ req[c].tok \in forgotten
  <2>1. Fine(req[c]) /\ Knows(req[c]) /\ req[c].step = "in"
    BY <1>1 DEF IInv, Reqs, Held, At
  <2>2. req[c].op \in {"use", "watch"} /\ (req[c].op = "watch" \/ req[c].tok \in lost)
    BY <1>1, <2>1 DEF Fine, Course
  <2> QED
    BY <1>1, <2>1, <2>2 DEF Knows
<1> QED
  BY <1>1 DEF RevocationTakesHold

-----------------------------------------------------------------------------
(* The theorems *)

\* Tokens, denylist and identities are in order: tokens are issued to the bound
\* identity only, or to one that lost a race for the binding.
THEOREM InvCorrect == Spec => []Inv
<1>1. IInv => Inv
  BY IInvSays
<1> QED
  BY <1>1, IInvAlways, PTL

\* A token whose logout returned a negative_ttl ago is not let in to what reads
\* the denylist's table, whatever the cache has forgotten, unless its row was
\* rolled back by another call; nor to a stream or a connection for events, which
\* read the cache alone, unless a restart or a change of the password emptied it.
THEOREM RevocationTakesHoldCorrect == Spec => []RevocationTakesHold
<1>1. IInv /\ Held => RevocationTakesHold
  BY HeldSays
<1>2. Init => Held
  BY HeldInit
<1>3. IInv /\ Held /\ [Next]_vars => Held'
  BY HeldStep
<1>4. Spec => []Held
  BY <1>2, <1>3, IInvAlways, PTL DEF Spec
<1> QED
  BY <1>1, <1>4, IInvAlways, PTL

\* However requests overlap, an address hears "wrong password" at most
\* max_attempts times in a window, and once for each other request under way.
THEOREM GuessesBoundedCorrect == Spec => []GuessesBounded
<1>1. IInv => GuessesBounded
  BY IInvSays
<1> QED
  BY <1>1, IInvAlways, PTL
=============================================================================
