---------------------------- MODULE GitHubClient ----------------------------
(***************************************************************************)
(* A call to the GitHub API: the fixed-window rate limiter in Redis, which *)
(* every process shares, then the installation token that the callers of   *)
(* one process cache under a mutex, then the request.                      *)
(***************************************************************************)
EXTENDS Naturals, Sequences, FiniteSets

CONSTANTS Callers,   \* goroutines, each with one call to make
          Limit,     \* calls that a window allows
          MaxTokens  \* bound on the installation tokens GitHub issues

ASSUME GitHubAssumption == Limit \in Nat \ {0} /\ MaxTokens \in Nat \ {0}

VARIABLES
  count,     \* the limiter's key: calls counted in this window, 0 when absent
  expires,   \* the key has an expiry
  call,      \* where each caller stands
  token,     \* the token each caller holds, 0 for none
  cached,    \* the token the process keeps, 0 for none
  age,       \* age of every token issued so far
  renewals   \* how many tokens have come near their end

githubVars == <<count, expires, call, token, cached, age, renewals>>

CallSteps == {"limit", "asleep", "token", "refresh", "send", "done", "failed"}
Ages == {"fresh", "ending", "expired"}  \* "fresh": more than two minutes are left
Refreshing == {c \in Callers : call[c] = "refresh"}
Sending == {c \in Callers : call[c] = "send"}
Goes(c, from, to) == call[c] = from /\ call' = [call EXCEPT ![c] = to]

\* Mutant: the token is fetched before the caller waits for the limiter.
TokenFirst == <<"token", "limit", "send">>
Order == <<"limit", "token", "send">>
After(step) == Order[1 + CHOOSE i \in 1..2 : Order[i] = step]
-----------------------------------------------------------------------------
\* Mutant: PEXPIRE is a second command, which may be lost.
CountThenExpire == /\ count' = IF count < Limit THEN count + 1 ELSE count
                   /\ expires' \in {expires, TRUE}

\* allowScript: INCR, with PEXPIRE on the first count, as one script.
\* A count beyond the limit is not told apart from the limit.
CountCall == /\ count' = IF count < Limit THEN count + 1 ELSE count
             /\ expires' = (expires \/ count = 0)

TakeSlotOfWindow(c) ==
  /\ CountCall
  /\ Goes(c, "limit", IF count < Limit THEN After("limit") ELSE "asleep")
  /\ UNCHANGED <<token, cached, age, renewals>>

\* The caller has slept for the key's TTL, or for 500ms when it could not read one.
Wake(c) == Goes(c, "asleep", "limit") /\ UNCHANGED <<count, expires, token, cached, age, renewals>>

\* Redis does not answer, the context ends, the token or the request is refused.
GiveUp(c) ==
  /\ \E step \in {"limit", "asleep", "refresh", "send"} : Goes(c, step, "failed")
  /\ UNCHANGED <<count, expires, token, cached, age, renewals>>

WindowEnds == /\ expires
              /\ count' = 0 /\ expires' = FALSE
              /\ UNCHANGED <<call, token, cached, age, renewals>>
-----------------------------------------------------------------------------
\* Mutant: callers look at the cache and refresh it without the mutex.
NoMutex == TRUE
MutexFree == Refreshing = {}
Usable == cached # 0 /\ age[cached] = "fresh"

\* tokenSource: the cached token while more than two minutes are left, or a new one.
LookUp(c) ==
  /\ MutexFree
  /\ IF Usable THEN Goes(c, "token", After("token")) /\ token' = [token EXCEPT ![c] = cached]
               ELSE Goes(c, "token", "refresh") /\ UNCHANGED token
  /\ UNCHANGED <<count, expires, cached, age, renewals>>

Refresh(c) ==
  /\ Len(age) < MaxTokens
  /\ Goes(c, "refresh", After("token"))
  /\ age' = Append(age, "fresh")
  /\ cached' = Len(age) + 1
  /\ token' = [token EXCEPT ![c] = Len(age) + 1]
  /\ UNCHANGED <<count, expires, renewals>>

Respond(c) == Goes(c, "send", "done") /\ UNCHANGED <<count, expires, token, cached, age, renewals>>

\* A request takes 30 seconds at most, so that the last two minutes of a token
\* that was fresh when it was taken do not pass while the request is sent.
Grow(k) ==
  /\ \/ /\ age[k] = "fresh" /\ Len(age) < MaxTokens
        /\ age' = [age EXCEPT ![k] = "ending"] /\ renewals' = renewals + 1
     \/ /\ age[k] = "ending" /\ \A c \in Sending : token[c] # k
        /\ age' = [age EXCEPT ![k] = "expired"] /\ UNCHANGED renewals
  /\ UNCHANGED <<count, expires, call, token, cached>>
-----------------------------------------------------------------------------
GitHubInit ==
  /\ count = 0 /\ expires = FALSE
  /\ call = [c \in Callers |-> Order[1]] /\ token = [c \in Callers |-> 0]
  /\ cached = 0 /\ age = <<>> /\ renewals = 0

Call(c) == TakeSlotOfWindow(c) \/ Wake(c) \/ LookUp(c) \/ Refresh(c) \/ Respond(c)

GitHubNext == \/ \E c \in Callers : Call(c) \/ GiveUp(c)
              \/ WindowEnds
              \/ \E k \in DOMAIN age : Grow(k)

GitHubFairness == WF_githubVars(WindowEnds) /\ \A c \in Callers : WF_githubVars(Call(c))
GitHubSpec == GitHubInit /\ [][GitHubNext]_githubVars /\ GitHubFairness
-----------------------------------------------------------------------------
GitHubTypeOK ==
  /\ count \in 0..Limit /\ expires \in BOOLEAN
  /\ call \in [Callers -> CallSteps] /\ token \in [Callers -> 0..Len(age)]
  /\ cached \in 0..Len(age) /\ age \in Seq(Ages) /\ Len(age) <= MaxTokens
  /\ renewals \in 0..MaxTokens

\* No request goes out with an expired token, however long its caller slept for
\* the limiter and whoever refreshed the cache meanwhile.
SentTokenIsValid == \A c \in Sending : token[c] # 0 /\ age[token[c]] # "expired"

\* Callers that find the token near its end at once ask GitHub for one new token.
OneTokenPerRenewal == Len(age) <= renewals + 1

\* Every call ends: a full window opens again and its slots go round.
CallsEnd == <>(\A c \in Callers : call[c] \in {"done", "failed"})
=============================================================================
