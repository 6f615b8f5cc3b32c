---------------------------- MODULE AgreementHttp ----------------------------
(***************************************************************************)
(* The HTTP process around the services: its routes with their order of    *)
(* session check, body, participant check and rate limit                   *)
(* (agreement-http.ts), the wallet challenges and sessions                 *)
(* (auth/wallet-auth.ts) and the shutdown on a signal                      *)
(* (graceful-shutdown.ts).  What a service does is the subject of the      *)
(* other modules; here it is one use of the database pool.                 *)
(*                                                                         *)
(* A handler runs up to its next await in one step.  A client is a browser *)
(* with one connection and one wallet; two tabs are two clients.           *)
(***************************************************************************)
EXTENDS Integers, Sequences, FiniteSets

CONSTANTS
  Clients,        \* browsers
  owner,          \* the wallet address of each
  Limit,          \* requests an address may make in one window
  Window,         \* length of a window of the limiter
  MaxKeys,        \* addresses the limiter remembers
  ChallengeLife,  \* time a challenge can be answered
  MaxChallenges,  \* challenges the process remembers
  SessionLife,    \* time a session lasts
  GracePeriod,    \* time a shutdown waits for open connections
  MaxTime,        \* bound: the clock
  MaxRequests,    \* bound: requests ever sent
  Scenarios       \* bound: what clients do in one behaviour (see HttpInit)

ASSUME HttpAssumption ==
  /\ \A n \in {Limit, Window, MaxKeys, ChallengeLife, MaxChallenges, SessionLife} :
       n \in Nat \ {0}
  /\ GracePeriod \in Nat /\ MaxTime \in Nat /\ MaxRequests \in Nat
  /\ DOMAIN owner = Clients

VARIABLES
  clock,
  challenges,  \* the Map of pending challenges, by address
  limiter,     \* the Map of each of the two limiters, by address
  message,     \* the challenge each client's wallet has signed (a nonce)
  session,     \* the session cookie of each client
  handler,     \* the handler of each client's request
  socket,      \* the connection of each client
  sent,        \* requests sent so far
  scenario,    \* what may happen in this behaviour; never changes
  shutdown,    \* progress of the shutdown: phase, deadline, whether forced
  pool,        \* the database pool
  issuedAt,    \* history: when each challenge was issued
  opened,      \* history: how many sessions each challenge has opened
  admitted,    \* history: when each limiter has let an address through
  evicted      \* history: addresses whose window was forgotten

authVars == <<challenges, message, issuedAt, opened>>
limitVars == <<limiter, admitted, evicted>>
stopVars == <<shutdown, pool>>
httpVars == <<clock, authVars, limitVars, session, handler, socket, sent, scenario, stopVars>>

Addresses == {owner[c] : c \in Clients}
Times == 0..MaxTime
Limiters == {"create", "confirm"}

(***************************************************************************)
(* A Map that keeps the order of insertion: a function whose entries have  *)
(* a time to expire and their place in that order, from 1.                 *)
(***************************************************************************)
EmptyMap == [key \in {} |-> 0]

\* The entries of keys, in the order they had.
Keep(map, keys) ==
  [key \in keys |->
     [map[key] EXCEPT !.place = Cardinality({k \in keys : map[k].place <= @})]]

Delete(map, key) == Keep(map, DOMAIN map \ {key})

\* Setting a key that is there keeps its place.
Put(map, key, entry) ==
  LET place == IF key \in DOMAIN map THEN map[key].place ELSE Cardinality(DOMAIN map) + 1
  IN [k \in DOMAIN map \cup {key} |->
        IF k = key THEN [entry EXCEPT !.place = place] ELSE map[k]]

Prune(map) == Keep(map, {key \in DOMAIN map : map[key].expiresAt > clock})

\* A full table forgets its oldest entry.
MakeRoom(map, size) ==
  IF Cardinality(DOMAIN map) >= size
  THEN Keep(map, {key \in DOMAIN map : map[key].place # 1})
  ELSE map

\* A browser may hold the cookie of a session that an earlier process opened.
NoSession == [nonce |-> 0, expiresAt |-> 0]
EarlierSession == [nonce |-> 0, expiresAt |-> SessionLife]

\* A scenario says what each client may do, which of them come with a session
\* of an earlier process, and whether the process is told to stop.
May(c, thing) == thing \in scenario.does[c]

HttpInit ==
  /\ clock = 0
  /\ challenges = EmptyMap
  /\ limiter = [l \in Limiters |-> EmptyMap]
  /\ message = [c \in Clients |-> 0]
  /\ sent = 0
  /\ scenario \in Scenarios
  /\ session = [c \in Clients |-> IF c \in scenario.signedIn THEN EarlierSession ELSE NoSession]
  /\ handler = [c \in Clients |-> "answered"]
  /\ socket = [c \in Clients |-> "closed"]
  /\ shutdown = [phase |-> "running", deadline |-> 0, forced |-> FALSE]
  /\ pool = "open"
  /\ issuedAt = <<>>
  /\ opened = <<>>
  /\ admitted = [l \in Limiters |-> [a \in Addresses |-> <<>>]]
  /\ evicted = {}

(***************************************************************************)
(* InMemoryRateLimiter.allow.                                              *)
(***************************************************************************)
Entry(count, end) == [count |-> count, expiresAt |-> end, place |-> 0]

Counted(map, a) == [map EXCEPT ![a].count = @ + 1]

\* Mutant: a request more than the limit.
OverLimitByOne(map, a) == a \in DOMAIN map /\ map[a].count > Limit

OverLimit(map, a) == a \in DOMAIN map /\ map[a].count >= Limit

Enters(map, a) == Put(MakeRoom(map, MaxKeys), a, Entry(1, clock + Window))

\* The limiter l lets a through: its table after that, and the history.
Allows(l, a) ==
  LET map == Prune(limiter[l])
      next == IF a \in DOMAIN map THEN Counted(map, a) ELSE Enters(map, a)
  IN /\ ~OverLimit(map, a)
     /\ limiter' = [limiter EXCEPT ![l] = next]
     /\ admitted' = [admitted EXCEPT ![l][a] = Append(@, clock)]
     /\ evicted' = evicted \cup {<<l, k>> : k \in DOMAIN map \ DOMAIN next}

Refuses(l, a) ==
  /\ OverLimit(Prune(limiter[l]), a)
  /\ limiter' = [limiter EXCEPT ![l] = Prune(@)]
  /\ UNCHANGED <<admitted, evicted>>

(***************************************************************************)
(* WalletAuthService.                                                      *)
(***************************************************************************)
CreateChallenge(a) ==
  /\ issuedAt' = Append(issuedAt, clock)
  /\ opened' = Append(opened, 0)
  /\ challenges' = Put(MakeRoom(Prune(challenges), MaxChallenges), a,
                       [nonce |-> Len(issuedAt) + 1,
                        expiresAt |-> clock + ChallengeLife, place |-> 0])

\* Mutant: an expired challenge that was not pruned is still accepted.
AnswersExpiredChallenge(a, nonce) ==
  a \in DOMAIN challenges /\ challenges[a].nonce = nonce

\* The signature is one of the pending challenge of the address.
AnswersChallenge(a, nonce) ==
  /\ a \in DOMAIN challenges
  /\ challenges[a].expiresAt >= clock
  /\ challenges[a].nonce = nonce

\* Mutant: the challenge stays after it has been answered.
OpenSessionKeepingChallenge(a, nonce) ==
  opened' = [opened EXCEPT ![nonce] = @ + 1] /\ UNCHANGED challenges

OpenSession(a, nonce) ==
  /\ challenges' = Delete(challenges, a)
  /\ opened' = [opened EXCEPT ![nonce] = @ + 1]

IssuedSession(nonce) == [nonce |-> nonce, expiresAt |-> clock + SessionLife]

\* readSession of the cookie, also what keeps a request from going on.
ReadSession(c) == session[c].expiresAt > clock

(***************************************************************************)
(* The handler.  Its answer goes to the client if the connection is still  *)
(* there, which is then idle; only a 429 is told from the other answers.   *)
(***************************************************************************)
Answers(c, what) ==
  /\ UNCHANGED <<sent, scenario>>
  /\ handler' = [handler EXCEPT ![c] = what]
  /\ socket' = [socket EXCEPT ![c] = IF @ = "busy" THEN "idle" ELSE @]

Waits(c, step) == handler' = [handler EXCEPT ![c] = step] /\ UNCHANGED <<socket, sent, scenario>>

\* The handler of a new request runs to its first await, or to its answer.
Begins(c, step) ==
  /\ UNCHANGED scenario
  /\ sent' = sent + 1
  /\ handler' = [handler EXCEPT ![c] = step]
  /\ socket' = [socket EXCEPT ![c] = IF step = "answered" THEN "idle" ELSE "busy"]

\* Mutant: the listening socket stays open.
ReachesAlways(c) == sent < MaxRequests /\ handler[c] \in {"answered", "limited"}

\* A client that is connected, or can connect, sends a request.
Reaches(c) ==
  /\ sent < MaxRequests
  /\ handler[c] \in {"answered", "limited"}
  /\ socket[c] = "idle" \/ (socket[c] = "closed" /\ shutdown.phase = "running")

\* GET /auth/session, POST /auth/challenge and /auth/verify, and GET
\* /agreements/discovery, the only list without a session.
SendsOpen(c) ==
  /\ Reaches(c)
  /\ \E step \in {"answered", "challenge", "verify", "working"} \cap scenario.does[c] :
       Begins(c, step)
  /\ UNCHANGED <<clock, authVars, limitVars, session, stopVars>>

\* POST /auth/logout only clears the cookie of this browser.
Logout(c) ==
  /\ Reaches(c) /\ May(c, "logout")
  /\ Begins(c, "answered")
  /\ session' = [session EXCEPT ![c] = NoSession]
  /\ UNCHANGED <<clock, authVars, limitVars, stopVars>>

\* Every other route reads the session first: the rest of the handler waits
\* for the service, the body or the agreement's row.
StartWithSession(c, step) ==
  /\ Reaches(c) /\ May(c, step)
  /\ Begins(c, IF ReadSession(c) THEN step ELSE "answered")
  /\ UNCHANGED <<clock, authVars, limitVars, session, stopVars>>

\* GET /agreements, /agreements/:id and its condition and work evidence.
GetAgreements(c) == StartWithSession(c, "working")
PostAgreements(c) == StartWithSession(c, "creation")
PostEvidence(c) == StartWithSession(c, "request")
\* Condition verification, work evidence and its review.
PostWork(c) == StartWithSession(c, "request")
PostConfirm(c) == StartWithSession(c, "confirmation")

\* The body of POST /auth/challenge; the wallet signs the message it gets.
BodyOfChallenge(c) ==
  /\ handler[c] = "challenge"
  /\ CreateChallenge(owner[c])
  /\ message' = [message EXCEPT ![c] = IF socket[c] = "busy" THEN Len(issuedAt) + 1 ELSE @]
  /\ Answers(c, "answered")
  /\ UNCHANGED <<clock, limitVars, session, stopVars>>

\* The body of POST /auth/verify.  The cookie of a lost answer is not set.
BodyOfVerify(c) ==
  /\ handler[c] = "verify"
  /\ IF message[c] # 0 /\ AnswersChallenge(owner[c], message[c])
     THEN /\ OpenSession(owner[c], message[c])
          /\ session' = [session EXCEPT ![c] =
               IF socket[c] = "busy" THEN IssuedSession(message[c]) ELSE @]
     ELSE UNCHANGED <<challenges, opened, session>>
  /\ Answers(c, "answered")
  /\ UNCHANGED <<clock, message, issuedAt, limitVars, stopVars>>

\* A participant is let through to the service, or out of requests.
Limited(c, l) ==
  \/ Allows(l, owner[c]) /\ Waits(c, "working")
  \/ Refuses(l, owner[c]) /\ Answers(c, "limited")

\* The body of POST /agreements names the buyer: this wallet or another.
BodyOfCreation(c) ==
  /\ handler[c] = "creation"
  /\ Limited(c, "create") \/ (Answers(c, "answered") /\ UNCHANGED limitVars)
  /\ UNCHANGED <<clock, authVars, session, stopVars>>

\* The other bodies are checked, then the service is called.
BodyOfRequest(c) ==
  /\ handler[c] = "request"
  /\ Waits(c, "working") \/ Answers(c, "answered")
  /\ UNCHANGED <<clock, authVars, limitVars, session, stopVars>>

\* A body that is too long, or no JSON, or whose client went away.
BodyFails(c) ==
  /\ handler[c] \in {"challenge", "verify", "creation", "request"}
  /\ Answers(c, "answered")
  /\ UNCHANGED <<clock, authVars, limitVars, session, stopVars>>

\* POST /agreements/:id/confirm has read the row: its buyer is this wallet, or
\* another, or there is no row, or the query fails.
FoundForConfirmation(c) ==
  /\ handler[c] = "confirmation"
  /\ \/ Limited(c, "confirm")
     \/ Answers(c, "answered") /\ UNCHANGED limitVars
  /\ UNCHANGED <<clock, authVars, session, stopVars>>

\* The service is done, or has failed: what it wants of an ended pool does.
ServiceEnds(c) ==
  /\ handler[c] = "working"
  /\ Answers(c, "answered")
  /\ UNCHANGED <<clock, authVars, limitVars, session, stopVars>>

\* The client goes away, or an idle connection reaches its keep-alive time.
Disconnect(c) ==
  /\ socket[c] # "closed" /\ May(c, "leave")
  /\ socket' = [socket EXCEPT ![c] = "closed"]
  /\ UNCHANGED <<clock, authVars, limitVars, session, handler, sent, scenario, stopVars>>

(***************************************************************************)
(* createGracefulShutdown.                                                 *)
(***************************************************************************)
CloseSockets(which) == socket' = [c \in Clients |-> IF socket[c] \in which THEN "closed" ELSE socket[c]]

\* SIGTERM or SIGINT: no new connection, idle ones are closed.
Signal ==
  /\ scenario.stops
  /\ shutdown.phase = "running"
  /\ clock + GracePeriod <= MaxTime
  /\ shutdown' = [shutdown EXCEPT !.phase = "closing", !.deadline = clock + GracePeriod]
  /\ CloseSockets({"idle"})
  /\ UNCHANGED <<clock, authVars, limitVars, session, handler, sent, scenario, pool>>

\* Mutant: the timer logs, and cuts nothing.
ForceTimerLogging ==
  /\ shutdown.phase = "closing" /\ clock >= shutdown.deadline /\ ~shutdown.forced
  /\ shutdown' = [shutdown EXCEPT !.forced = TRUE]
  /\ UNCHANGED <<clock, authVars, limitVars, session, handler, socket, sent, scenario, pool>>

\* The grace period is over: every connection is cut, its handler goes on.
ForceTimer ==
  /\ shutdown.phase = "closing" /\ clock >= shutdown.deadline /\ ~shutdown.forced
  /\ shutdown' = [shutdown EXCEPT !.forced = TRUE]
  /\ CloseSockets({"idle", "busy"})
  /\ UNCHANGED <<clock, authVars, limitVars, session, handler, sent, scenario, pool>>

\* The callback of server.close: no connection is left.  database.end().
ServerClosed ==
  /\ shutdown.phase = "closing"
  /\ \A c \in Clients : socket[c] = "closed"
  /\ shutdown' = [shutdown EXCEPT !.phase = "ending"]
  /\ pool' = "ended"
  /\ UNCHANGED <<clock, authVars, limitVars, session, handler, socket, sent, scenario>>

\* The pool has ended, or failed to; the result of the shutdown.
PoolEnded ==
  /\ shutdown.phase = "ending"
  /\ \E result \in {IF shutdown.forced THEN "forced" ELSE "clean", "failed"} :
       shutdown' = [shutdown EXCEPT !.phase = result]
  /\ UNCHANGED <<clock, authVars, limitVars, session, handler, socket, sent, scenario, pool>>

Tick ==
  /\ clock < MaxTime
  /\ clock' = clock + 1
  /\ UNCHANGED <<authVars, limitVars, session, handler, socket, sent, scenario, stopVars>>

Sends(c) ==
  \/ SendsOpen(c) \/ Logout(c) \/ GetAgreements(c) \/ PostAgreements(c)
  \/ PostEvidence(c) \/ PostWork(c) \/ PostConfirm(c)

HandlerGoesOn(c) ==
  \/ BodyOfChallenge(c) \/ BodyOfVerify(c) \/ BodyOfCreation(c) \/ BodyOfRequest(c)
  \/ BodyFails(c) \/ FoundForConfirmation(c) \/ ServiceEnds(c)

Stopping == ForceTimer \/ ServerClosed \/ PoolEnded

HttpNext ==
  \/ \E c \in Clients : Sends(c) \/ HandlerGoesOn(c) \/ Disconnect(c)
  \/ Signal \/ Stopping \/ Tick

HttpSpec == HttpInit /\ [][HttpNext]_httpVars

\* Time goes on and the process does its own steps; clients owe nothing.
FairHttpSpec == HttpSpec /\ WF_httpVars(Tick) /\ WF_httpVars(Stopping)

(***************************************************************************)
(* Properties.                                                             *)
(***************************************************************************)
(* However often a signature is sent again, a challenge opens one session. *)
ChallengeOpensOneSession == \A n \in DOMAIN opened : opened[n] <= 1

(* A session never outlives the challenge it rests on by more than its own *)
(* life: an old signature cannot be turned into a new session.             *)
SessionRestsOnFreshSignature ==
  \A c \in Clients :
    session[c] \notin {NoSession, EarlierSession} =>
      /\ opened[session[c].nonce] > 0
      /\ session[c].expiresAt <= issuedAt[session[c].nonce] + ChallengeLife + SessionLife

Within(times, from, to) == Cardinality({i \in DOMAIN times : times[i] \in from..to})

(* Windows begin at an address's first request, so the end of one and the  *)
(* begin of the next can meet in an interval of their length: never more   *)
(* than twice the limit less one are let through in it, unless the table   *)
(* was full and forgot the address.                                        *)
LimitedPerWindow ==
  \A l \in Limiters, a \in Addresses, t \in Times :
    <<l, a>> \notin evicted =>
      Within(admitted[l][a], t, t + Window - 1) <= 2 * Limit - 1

(* While a client waits for an answer the pool is there for its handler;   *)
(* only handlers whose clients are gone can meet an ended pool.            *)
PoolOutlivesWaitingClients ==
  \A c \in Clients : socket[c] = "busy" => pool = "open"

(* A shutdown ends, even when a client never finishes its request: the     *)
(* grace period bounds what it waits for.                                  *)
ShutdownEnds ==
  shutdown.phase = "closing" ~> shutdown.phase \in {"clean", "forced", "failed"}
=============================================================================
