------------------------------ MODULE ApiClients ------------------------------
(***************************************************************************)
(* One shared client of a remote API: the token bucket, the semaphore, the *)
(* retries and the cached OAuth token that every call passes through       *)
(* (fuzzbin/common/rate_limiter.py, concurrency_limiter.py,                *)
(* http_client.py, fuzzbin/api/base_client.py, spotify_auth.py).           *)
(*                                                                         *)
(* Tasks of one event loop interleave at their awaits.  Time is in ticks;  *)
(* only differences of times matter, so that a sleep counts down, the      *)
(* bucket remembers the ticks since its last update and a token its        *)
(* remaining life.  Tokens of the bucket come in units: a request takes    *)
(* Cost units, a tick brings `rate` of them.                               *)
(***************************************************************************)
EXTENDS Naturals, Sequences, FiniteSets, SequencesExt

CONSTANTS
  Tasks,
  Apis,         \* which of the APIs below the client may be for
  Burst,        \* requests a full bucket allows
  Cost,
  Rates,        \* rates that X-Discogs-Ratelimit may announce
  FirstRate,    \* the configured one
  MaxConcurrent, \* [Apis -> Nat], calls of one API that are sent at a time
  MaxAttempts,
  Backoffs,     \* ticks that a retry may wait
  Life,         \* ticks that an OAuth token lives
  Margin,
  MaxRestarts   \* bound on restarts

ASSUME ClientAssumption ==
  /\ Burst \in Nat \ {0} /\ Cost \in Nat \ {0}
  /\ Rates \subseteq Nat /\ FirstRate \in Rates \ {0}
  /\ \E top \in Rates : \A r \in Rates : r <= top
  /\ MaxConcurrent \in [Apis -> Nat \ {0}] /\ MaxAttempts \in Nat \ {0}
  /\ Backoffs \subseteq Nat \ {0} /\ IsFiniteSet(Backoffs) /\ Backoffs # {}
  /\ Life \in Nat /\ Margin \in Nat
  /\ Apis \subseteq {"imvdb", "discogs", "spotify", "musicbrainz"}
  /\ MaxRestarts \in Nat

VARIABLES
  api,      \* the API the client is for
  pc,       \* where each task waits
  left,     \* ticks that its sleep still lasts
  attempt,  \* which attempt of _make_request_with_retry() it makes
  tokens,   \* RateLimiter.tokens, in units
  since,    \* ticks since RateLimiter.last_update
  rate,     \* RateLimiter.rate
  value,    \* Semaphore._value
  waiters,  \* tasks in Semaphore._waiters, not yet woken
  activeCount,   \* ConcurrencyLimiter._active_count
  ttl,      \* remaining life of the OAuth token in memory, 0: none
  saved,    \* and of the one in the file
  restarts,
  meter     \* history: the eager bucket of RateContract

task == <<pc, left, attempt>>
bucket == <<tokens, since, rate>>
slots == <<value, waiters, activeCount>>
oauth == <<ttl, saved>>
clientVars == <<api, task, bucket, slots, oauth, restarts, meter>>

Full == Burst * Cost
TopRate == CHOOSE r \in Rates : \A s \in Rates : s <= r
Lesser(x, y) == IF x < y THEN x ELSE y

\* RateLimiter.get_available_tokens().
Available == Lesser(Full, tokens + since * rate)

\* Mutant: last_update is left alone, elapsed time is counted again.
NotUpdated == <<Available, since>>
\* Mutant: the time that a look at too few tokens has accounted for is lost.
TimeLost == <<IF Available >= Cost THEN Available ELSE tokens, 0>>
\* What acquire() writes back before it looks at the tokens.
Updated == <<Available, 0>>

\* Only MusicBrainzClient.from_config() turns the cache on, only Spotify's
\* requests carry an OAuth token.
Cached == api = "musicbrainz"
OAuth == api = "spotify"

\* DEFAULT_MAX_CONCURRENT of the client.
Capacity == MaxConcurrent[api]

ClientInit ==
  /\ api \in Apis
  /\ pc = [t \in Tasks |-> "idle"]
  /\ left = [t \in Tasks |-> 0]
  /\ attempt = [t \in Tasks |-> 0]
  /\ tokens = Full /\ since = 0 /\ rate = FirstRate
  /\ value = Capacity /\ waiters = << >> /\ activeCount = 0
  /\ ttl = 0 /\ saved = 0
  /\ restarts = 0
  /\ meter = Full

\* With a cache the bucket comes after the response, without one before.
Entry == IF Cached THEN "slot" ELSE "limiter"

At(t, step) == pc[t] = step /\ left[t] = 0
Goto(t, step) == pc' = [pc EXCEPT ![t] = step]
Sleep(t, n) == left' = [left EXCEPT ![t] = n]

Call(t) ==
  /\ pc[t] = "idle"
  /\ Goto(t, IF OAuth THEN "token" ELSE Entry)
  /\ attempt' = [attempt EXCEPT ![t] = 0]
  /\ UNCHANGED <<left, bucket, slots, oauth, restarts, meter, api>>

\* get_access_token(): the token in memory, or a request for a new one.
CheckToken(t) ==
  /\ At(t, "token")
  /\ Goto(t, IF ttl > Margin THEN Entry ELSE "fetching")
  /\ UNCHANGED <<left, attempt, bucket, slots, oauth, restarts, meter, api>>

\* _obtain_token(): two tasks may well fetch a token each; the later one stays.
ObtainToken(t) ==
  /\ At(t, "fetching")
  /\ \/ Goto(t, Entry) /\ ttl' = Life /\ saved' = Life
     \/ Goto(t, "idle") /\ UNCHANGED oauth
  /\ UNCHANGED <<left, attempt, bucket, slots, restarts, meter, api>>

\* RateLimiter.acquire(): between two of its sleeps it holds the lock and
\* nothing else runs, so that the lock itself never makes a task wait.  Whoever
\* looks first takes the token.  With a rate of zero the call ends in a
\* ZeroDivisionError.
AcquireToken(t, next) ==
  /\ since' = Updated[2]
  /\ \/ /\ Available >= Cost
        /\ tokens' = Updated[1] - Cost
        /\ meter' = meter - Cost
        /\ Goto(t, next)
        /\ UNCHANGED <<rate, left>>
     \/ /\ Available < Cost /\ rate > 0
        /\ tokens' = Updated[1]
        /\ Sleep(t, (Cost - Available + rate - 1) \div rate)
        /\ UNCHANGED <<rate, pc, meter>>
     \/ /\ Available < Cost /\ rate = 0
        /\ tokens' = Updated[1]
        /\ Goto(t, "idle")
        /\ UNCHANGED <<rate, left, meter>>

Limit(t) ==
  /\ \/ At(t, "limiter") /\ AcquireToken(t, "slot")
     \/ At(t, "charge") /\ AcquireToken(t, "idle")
  /\ UNCHANGED <<attempt, slots, oauth, restarts, api>>

Locked == value = 0 \/ waiters # << >>

\* ConcurrencyLimiter.acquire() on a free semaphore, or in its line.
EnterSlot(t) ==
  /\ At(t, "slot")
  /\ \/ /\ ~Locked
        /\ value' = value - 1 /\ activeCount' = activeCount + 1
        /\ Goto(t, "sending")
        /\ UNCHANGED waiters
     \/ /\ Locked
        /\ waiters' = Append(waiters, t)
        /\ Goto(t, "queued")
        /\ UNCHANGED <<value, activeCount>>
  /\ UNCHANGED <<left, attempt, bucket, oauth, restarts, meter, api>>

TakeSlot(t) ==
  /\ At(t, "granted")
  /\ activeCount' = activeCount + 1
  /\ Goto(t, "sending")
  /\ UNCHANGED <<left, attempt, bucket, value, waiters, oauth, restarts, meter, api>>

\* Mutant: the last one in the line is served first.
HandToLast(t, step) ==
  IF waiters = << >>
  THEN /\ value' = value + 1
       /\ Goto(t, step)
       /\ UNCHANGED waiters
  ELSE /\ pc' = [pc EXCEPT ![t] = step, ![Last(waiters)] = "granted"]
       /\ waiters' = Front(waiters)
       /\ UNCHANGED value

\* Semaphore.release(): the first waiter gets the slot at once and runs later.
HandOn(t, step) ==
  IF waiters = << >>
  THEN /\ value' = value + 1
       /\ Goto(t, step)
       /\ UNCHANGED waiters
  ELSE /\ pc' = [pc EXCEPT ![t] = step, ![Head(waiters)] = "granted"]
       /\ waiters' = Tail(waiters)
       /\ UNCHANGED value

\* Mutant: the count goes down before the semaphore is looked at, and the slot
\* is not given back when somebody waits.
ReleaseCountOnly(t, step) ==
  /\ Goto(t, step) /\ activeCount' = activeCount - 1
  /\ IF waiters = << >> THEN value' = value + 1 ELSE UNCHANGED value
  /\ UNCHANGED waiters

\* ConcurrencyLimiter.release().
Release(t, step) == HandOn(t, step) /\ activeCount' = activeCount - 1

\* Discogs announces its limit in a header of the response.  A limiter whose
\* rate is zero is left alone.
AdjustRate ==
  \/ UNCHANGED rate
  \/ api = "discogs" /\ rate > 0 /\ \E r \in Rates : rate' = r

\* The answer may be final, or worth another attempt while there are some;
\* the slot is kept through the back-off.
Respond(t) ==
  /\ At(t, "sending")
  /\ \/ /\ AdjustRate
        /\ Release(t, IF Cached THEN "charge" ELSE "idle")
        /\ UNCHANGED <<left, attempt, tokens, since>>
     \/ /\ Cached   \* _is_cached_response()
        /\ Release(t, "idle")
        /\ UNCHANGED <<left, attempt, bucket>>
     \/ /\ attempt[t] + 1 < MaxAttempts
        /\ \E n \in Backoffs : Sleep(t, n)
        /\ Goto(t, "backoff")
        /\ UNCHANGED <<attempt, bucket, slots>>
     \/ /\ Release(t, "idle")   \* an error that is not retried, or no longer
        /\ UNCHANGED <<left, attempt, bucket>>
  /\ UNCHANGED <<oauth, restarts, meter, api>>

Retry(t) ==
  /\ At(t, "backoff")
  /\ attempt' = [attempt EXCEPT ![t] = @ + 1]
  /\ Goto(t, "sending")
  /\ UNCHANGED <<left, bucket, slots, oauth, restarts, meter, api>>

\* The job or the request that makes the call is cancelled at an await.  A
\* waiter leaves the line; one that had been handed a slot hands it on.
Cancel(t) ==
  /\ pc[t] # "idle"
  /\ left' = [left EXCEPT ![t] = 0]
  /\ \/ /\ pc[t] \in {"limiter", "charge", "fetching"}
        /\ Goto(t, "idle")
        /\ UNCHANGED slots
     \/ /\ pc[t] = "queued"
        /\ \E i \in DOMAIN waiters :
             waiters[i] = t /\ waiters' = RemoveAt(waiters, i)
        /\ Goto(t, "idle")
        /\ UNCHANGED <<value, activeCount>>
     \/ /\ pc[t] = "granted"
        /\ HandOn(t, "idle")
        /\ UNCHANGED activeCount
     \/ /\ pc[t] \in {"sending", "backoff"}
        /\ Release(t, "idle")
  /\ UNCHANGED <<attempt, bucket, oauth, restarts, meter, api>>

Older(n) == IF n > 0 THEN n - 1 ELSE 0

\* Ticks that `since` need not tell apart: the bucket is full.
Tick ==
  /\ left' = [t \in Tasks |-> Older(left[t])]
  /\ since' = Lesser(since + 1, Full)
  /\ ttl' = Older(ttl) /\ saved' = Older(saved)
  /\ meter' = Lesser(meter + TopRate, Full)
  /\ UNCHANGED <<api, pc, attempt, tokens, rate, slots, restarts>>

\* The process ends, with cleanup_api_clients() or without, and begins anew
\* with what the file of the token holds, if that can be read.
Restart ==
  /\ restarts < MaxRestarts
  /\ restarts' = restarts + 1
  /\ pc' = [t \in Tasks |-> "idle"]
  /\ left' = [t \in Tasks |-> 0]
  /\ attempt' = [t \in Tasks |-> 0]
  /\ tokens' = Full /\ since' = 0 /\ rate' = FirstRate
  /\ value' = Capacity /\ waiters' = << >> /\ activeCount' = 0
  /\ ttl' \in {saved, 0}
  /\ meter' = Full
  /\ UNCHANGED <<api, saved>>

Proceed(t) ==
  \/ CheckToken(t) \/ ObtainToken(t) \/ Limit(t) \/ EnterSlot(t)
  \/ TakeSlot(t) \/ Respond(t) \/ Retry(t)

ClientNext ==
  \/ \E t \in Tasks : Call(t) \/ Proceed(t) \/ Cancel(t)
  \/ Tick
  \/ Restart

\* The loop runs every task that is ready, and time passes.
ClientFairness == WF_clientVars(Tick) /\ \A t \in Tasks : WF_clientVars(Proceed(t))

ClientSpec == ClientInit /\ [][ClientNext]_clientVars /\ ClientFairness
-----------------------------------------------------------------------------
Steps == {"idle", "token", "fetching", "limiter", "slot", "queued", "granted",
          "sending", "backoff", "charge"}

ClientTypeOK ==
  /\ api \in Apis
  /\ pc \in [Tasks -> Steps]
  /\ left \in [Tasks -> Nat]
  /\ attempt \in [Tasks -> Nat] /\ \A t \in Tasks : attempt[t] < MaxAttempts
  /\ tokens \in 0 .. Full /\ since \in Nat /\ rate \in Rates
  /\ value \in 0 .. Capacity /\ activeCount \in 0 .. Capacity
  /\ waiters \in Seq(Tasks)
  /\ ttl \in 0 .. Life /\ saved \in 0 .. Life
  /\ restarts \in 0 .. MaxRestarts
  /\ meter \in 0 .. Full

\* The lazy bucket never holds more than an eager one would, whatever task
\* last looked at it and however often the rate was changed.
BucketNotAhead == Available <= meter

\* Grants are what RateContract allows: no stretch of time sees more than the
\* burst and what the rate brings in it.
Contract == INSTANCE RateContract
GrantsWithinRate == Contract!Spec

\* No slot is lost or given out twice by cancellations, failures and retries,
\* and none is free while somebody waits for one.
InSlot == {t \in Tasks : pc[t] \in {"sending", "backoff"}}
SlotsConserved ==
  /\ activeCount = Cardinality(InSlot)
  /\ value + activeCount + Cardinality({t \in Tasks : pc[t] = "granted"}) = Capacity
  /\ ToSet(waiters) = {t \in Tasks : pc[t] = "queued"}
  /\ IsInjective(waiters)
  /\ value > 0 => waiters = << >>

\* The limiters' books are right: tokens never exceed what time has brought, and
\* slots are neither lost nor doubled.
ClientInv == ClientTypeOK /\ BucketNotAhead /\ SlotsConserved

\* A call in the semaphore's line gets its turn, whatever calls come after it,
\* are cancelled or fail: the line is served in order and no slot is lost.
SlotsInTurn == \A t \in Tasks : pc[t] = "queued" ~> pc[t] # "queued"

Waits(t) == pc[t] \in {"limiter", "charge"}

\* The bucket is nobody's: any call may take the token that another sleeps for,
\* and a call may wait for ever.  But as long as calls wait for tokens some of
\* them go on, however often they all look at the bucket in between.
TokensFlow ==
  \/ []<>(\A t \in Tasks : ~Waits(t))
  \/ []<><<\E t \in Tasks : Waits(t) /\ pc'[t] # pc[t]>>_clientVars
=============================================================================
