------------------------------ MODULE RequestAccess ------------------------------
(***************************************************************************)
(* Who a request is from and whether it may come now (security/auth.py,    *)
(* rate_limiter.py, dependencies.py, routes/auth.py).  The limiter keeps a *)
(* sliding window per bucket: in one process under a lock, or in a shared  *)
(* store, where several processes watch the bucket they read and start     *)
(* again when it changed.  Accounts, keys and tokens are rows and records; *)
(* a token is signed with the secret of the process that made it.          *)
(***************************************************************************)
EXTENDS Integers, Sequences, FiniteSets, FiniteSetsExt

CONSTANTS
    Names,          \* user names; user identities are attempts to register
    AccessAttempts, \* registrations
    AdminNames,     \* admin_usernames
    Secrets,        \* the secret keys a token may be signed with; one is ours
    OurSecret,
    TokenLife,      \* _JWT_EXPIRY
    RateWindow, Limit,  \* of the limiter
    Processes,      \* processes that share the store
    MaxAccessClock, MaxVerdicts     \* bounds

VARIABLES
    accessClock,
    accounts,       \* UserRow by identity: [name, admin]
    apiKeys,        \* ApiKeyRow: the identities that have a key
    tokens,         \* tokens handed out, or made up: [user, exp, secret]
    caller,         \* the last identity a request was given: [user, admin, by, token]
    localWindow,    \* RateLimiter._local_store: the stamps of a bucket, in order
    sharedWindow,   \* the bucket in the shared store: [stamp, member]
    checks,         \* [Processes -> a check in the shared store]
    verdicts,       \* answers of the local limiter: [bucket, at, allowed, retry, entries]
    entering        \* "ip": a request that its user's bucket has let through

accessVars == <<accessClock, accounts, apiKeys, tokens, caller, localWindow, sharedWindow, checks, verdicts, entering>>

NoAccount == [name |-> "none", admin |-> FALSE]
Nobody == [user |-> "none", admin |-> FALSE, by |-> "none", exp |-> 0]
IdleCheck == [pc |-> "idle", stamp |-> 0, seen |-> {}]

AccessInit ==
    /\ accessClock = 1
    /\ accounts = [a \in AccessAttempts |-> NoAccount] /\ apiKeys = {} /\ tokens = {} /\ caller = Nobody
    /\ localWindow = [b \in {"user", "ip"} |-> <<>>] /\ sharedWindow = {} /\ verdicts = <<>> /\ entering = "no"
    /\ checks = [p \in Processes |-> IdleCheck]

AccessTick ==
    /\ accessClock < MaxAccessClock /\ accessClock' = accessClock + 1
    /\ UNCHANGED <<accounts, apiKeys, tokens, caller, localWindow, sharedWindow, checks, verdicts, entering>>

-----------------------------------------------------------------------------
(* Accounts. *)

OnlyAccounts == UNCHANGED <<accessClock, localWindow, sharedWindow, checks, verdicts, entering>>

(* The unique index on users.username. *)
NameIsFree(name) == \A a \in AccessAttempts : accounts[a].name # name

(* create_jwt() *)
CreateJwt(user) == [user |-> user, exp |-> accessClock + TokenLife, secret |-> OurSecret]

(* POST /register: the row, or an error; then a token. *)
RegisterUser(a, name) ==
    /\ accounts[a] = NoAccount /\ NameIsFree(name)
    /\ accounts' = [accounts EXCEPT ![a] = [name |-> name, admin |-> name \in AdminNames]]
    /\ tokens' = tokens \union {CreateJwt(a)}
    /\ UNCHANGED <<apiKeys, caller>> /\ OnlyAccounts

(* POST /login with the right password. *)
Login(a) ==
    /\ accounts[a] # NoAccount
    /\ tokens' = tokens \union {CreateJwt(a)}
    /\ UNCHANGED <<accounts, apiKeys, caller>> /\ OnlyAccounts

(* POST /api-keys *)
RegisterApiKey(a) ==
    /\ caller.user = a /\ apiKeys' = apiKeys \union {a}
    /\ UNCHANGED <<accounts, tokens, caller>> /\ OnlyAccounts

(* A token signed with another key turns up; one is enough. *)
ForeignToken(a) ==
    /\ \A t \in tokens : t.secret = OurSecret
    /\ \E s \in Secrets \ {OurSecret} :
           tokens' = tokens \union {[user |-> a, exp |-> accessClock + TokenLife, secret |-> s]}
    /\ UNCHANGED <<accounts, apiKeys, caller>> /\ OnlyAccounts

(* verify_jwt() *)
VerifyJwt(t) == t.secret = OurSecret /\ t.exp > accessClock

(* Who a token speaks for is looked up: a token outlives neither its time   *)
(* nor its account, and the row says whether it is an administrator's.      *)
IdentityOf(a, by, exp) == [user |-> a, admin |-> accounts[a].admin, by |-> by, exp |-> exp]

(* get_current_user(): an API key, if it is one, else a token. *)
Authenticate(key, t) ==
    /\ caller' = IF key \in apiKeys /\ accounts[key] # NoAccount THEN IdentityOf(key, "api_key", 0)
                 ELSE IF VerifyJwt(t) /\ accounts[t.user] # NoAccount THEN IdentityOf(t.user, "jwt", accessClock)
                 ELSE Nobody
    /\ caller' # caller
    /\ UNCHANGED <<accounts, apiKeys, tokens>> /\ OnlyAccounts

-----------------------------------------------------------------------------
(* The limiter of one process. *)

(* The stamps inside the window, in their order. *)
Active(stamps) ==
    LET within == {i \in DOMAIN stamps : stamps[i] > accessClock - RateWindow}
    IN  [k \in 1..Cardinality(within) |->
            stamps[CHOOSE i \in within : Cardinality({j \in within : j < i}) = k - 1]]

(* The oldest entry has to leave. *)
RetryAfter(entries) == Max({1, entries[1] + RateWindow - accessClock})

(* _check_local() on one bucket. *)
CheckLocal(bucket, next) ==
    LET entries == Active(localWindow[bucket])
        allowed == Len(entries) < Limit
    IN /\ localWindow' = [localWindow EXCEPT ![bucket] = IF allowed THEN Append(entries, accessClock) ELSE entries]
       /\ verdicts' = Append(verdicts, [bucket |-> bucket, at |-> accessClock, allowed |-> allowed,
                                        retry |-> IF allowed THEN 0 ELSE RetryAfter(entries),
                                        entries |-> entries])
       /\ entering' = IF allowed THEN next ELSE "no"
       /\ UNCHANGED <<accessClock, accounts, apiKeys, tokens, caller, sharedWindow, checks>>

(* enforce_rate_limit(): the user's bucket, then that of the address, each  *)
(* under the lock by itself; the first is consumed even if the second       *)
(* refuses.  A request without a user only has an address.                  *)
EnforceUser == entering = "no" /\ Len(verdicts) < MaxVerdicts /\ CheckLocal("user", "ip")
EnforceAddress == entering \in {"no", "ip"} /\ Len(verdicts) < MaxVerdicts /\ CheckLocal("ip", "no")

-----------------------------------------------------------------------------
(* The limiter in the shared store. *)

ActiveRows(stamp) == {e \in sharedWindow : e.stamp > stamp - RateWindow}

SetCheck(p, c) ==
    /\ checks' = [checks EXCEPT ![p] = c]
    /\ UNCHANGED <<accessClock, accounts, apiKeys, tokens, caller, localWindow, verdicts, entering>>

(* Each process's stamp is taken before it reaches the store. *)
BeginCheck(p) ==
    /\ checks[p].pc = "idle"
    /\ SetCheck(p, [IdleCheck EXCEPT !.pc = "stamped", !.stamp = accessClock])
    /\ UNCHANGED sharedWindow

(* The bucket after an admission or a refusal. *)
BucketAfter(p, stamp, allowed) ==
    ActiveRows(stamp) \union (IF allowed THEN {[stamp |-> stamp, member |-> p]} ELSE {})

(* The script: one step of the store. *)
CheckRedis(p) ==
    /\ checks[p].pc = "stamped"
    /\ LET stamp == checks[p].stamp
       IN sharedWindow' = BucketAfter(p, stamp, Cardinality(ActiveRows(stamp)) < Limit)
    /\ SetCheck(p, [IdleCheck EXCEPT !.pc = "done"])

(* Where there are no scripts: WATCH, then the read. *)
WatchBucket(p) ==
    /\ checks[p].pc = "stamped"
    /\ SetCheck(p, [checks[p] EXCEPT !.pc = "watching", !.seen = sharedWindow])
    /\ UNCHANGED sharedWindow

(* EXEC goes through when nobody touched the bucket. *)
BucketUnchanged(p) == sharedWindow = checks[p].seen

ExecuteCheck(p) ==
    /\ checks[p].pc = "watching"
    /\ LET stamp == checks[p].stamp
           count == Cardinality({e \in checks[p].seen : e.stamp > stamp - RateWindow})
       IN IF BucketUnchanged(p)
          THEN /\ sharedWindow' = BucketAfter(p, stamp, count < Limit)
               /\ SetCheck(p, [IdleCheck EXCEPT !.pc = "done"])
          ELSE /\ UNCHANGED sharedWindow
               /\ SetCheck(p, [checks[p] EXCEPT !.pc = "stamped", !.seen = {}])

(* The three parts of the module share nothing but the clock. *)
AccountsNext ==
    \/ AccessTick
    \/ \E a \in AccessAttempts : Login(a) \/ RegisterApiKey(a) \/ ForeignToken(a) \/ \E name \in Names : RegisterUser(a, name)
    \/ \E key \in AccessAttempts \union {"none"}, t \in tokens : Authenticate(key, t)
LocalNext == AccessTick \/ EnforceUser \/ EnforceAddress
SharedNext == AccessTick \/ \E p \in Processes : BeginCheck(p) \/ CheckRedis(p) \/ WatchBucket(p) \/ ExecuteCheck(p)

-----------------------------------------------------------------------------
(* Whatever window of its length is laid over time, one process admits no   *)
(* more than the limit in it, and a caller it refuses finds a free place    *)
(* when it comes back at the time it was told (_check_local()).             *)
WindowsHoldTheLimit ==
    \A i \in DOMAIN verdicts :
        LET v == verdicts[i]
            admitted == {j \in DOMAIN verdicts : verdicts[j].allowed /\ verdicts[j].bucket = v.bucket}
        IN /\ Cardinality({j \in admitted : verdicts[j].at \in (v.at - RateWindow + 1) .. v.at}) <= Limit
           /\ ~v.allowed => Cardinality({k \in DOMAIN v.entries : v.entries[k] > v.at + v.retry - RateWindow}) < Limit

(* However the checks of processes overlap, the shared bucket never holds   *)
(* more entries than the limit (_check_redis_transaction()).                *)
SharedBucketHoldsTheLimit == Cardinality(sharedWindow) <= Limit

(* A name belongs to one account, and a request is only ever taken for an   *)
(* account that exists, on a key of that account or on a token this server  *)
(* signed for it and whose time was not up; its rights are the row's.       *)
CallersAreWhoTheySay ==
    /\ \A a, b \in AccessAttempts : a # b /\ accounts[a].name = accounts[b].name => accounts[a] = NoAccount
    /\ caller # Nobody =>
           /\ accounts[caller.user] # NoAccount /\ caller.admin = (accounts[caller.user].name \in AdminNames)
           /\ caller.by = "api_key" => caller.user \in apiKeys
           /\ caller.by = "jwt" => \E t \in tokens : t.user = caller.user /\ t.secret = OurSecret /\ t.exp > caller.exp
=============================================================================
