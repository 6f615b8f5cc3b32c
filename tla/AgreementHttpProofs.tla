------------------------ MODULE AgreementHttpProofs ------------------------
(***************************************************************************)
(* Proofs about the HTTP process: its challenges and sessions, its rate    *)
(* limiters and its shutdown, for any clients, wallets, limits, times and  *)
(* scenarios.                                                              *)
(***************************************************************************)
EXTENDS AgreementHttp, FiniteSetTheorems, WellFoundedInduction, TLAPS

(***************************************************************************)
(* The invariants.                                                         *)
(***************************************************************************)
\* Where a handler waits, or how its request was answered.
HandlerSteps ==
  {"answered", "limited", "challenge", "verify", "creation", "request",
   "confirmation", "working"}

(* The state has the values the code gives it, as far as the rest needs.   *)
HttpTypeOK ==
  /\ clock \in Nat
  /\ message \in [Clients -> Nat]
  /\ session \in [Clients -> [nonce : Nat, expiresAt : Nat]]
  /\ handler \in [Clients -> HandlerSteps]
  /\ socket \in [Clients -> {"closed", "idle", "busy"}]
  /\ shutdown \in [phase : {"running", "closing", "ending", "clean", "forced", "failed"},
                   deadline : Nat, forced : BOOLEAN]
  /\ issuedAt \in Seq(Nat)
  /\ opened \in Seq(Nat)
  /\ admitted \in [Limiters -> [Addresses -> Seq(Nat)]]
  /\ DOMAIN limiter = Limiters

\* The pool ends only when nobody is connected, and nobody connects after that.
PoolOK ==
  \/ shutdown.phase \in {"running", "closing"} /\ pool = "open"
  \/ shutdown.phase \notin {"running", "closing"} /\ \A c \in Clients : socket[c] = "closed"

\* A pending challenge has not been answered.
ChallengesOK ==
  \A a \in DOMAIN challenges :
    /\ challenges[a].nonce \in 1..Len(issuedAt)
    /\ challenges[a].expiresAt = issuedAt[challenges[a].nonce] + ChallengeLife
    /\ opened[challenges[a].nonce] = 0

DistinctChallenges ==
  \A a, b \in DOMAIN challenges :
    challenges[a].nonce = challenges[b].nonce => a = b

\* A session that this process opened rests on a challenge that was answered.
SessionsOK ==
  \A c \in Clients :
    \/ session[c] \in {NoSession, EarlierSession}
    \/ /\ session[c].nonce \in 1..Len(issuedAt)
       /\ opened[session[c].nonce] = 1
       /\ session[c].expiresAt <= issuedAt[session[c].nonce] + ChallengeLife + SessionLife

AuthOK ==
  /\ Len(opened) = Len(issuedAt)
  /\ \A n \in DOMAIN opened : opened[n] <= 1
  /\ ChallengesOK
  /\ DistinctChallenges
  /\ SessionsOK

\* Times at which an address was let through, in order.
TimesOK(times) ==
  /\ \A i \in 1..Len(times) : times[i] <= clock
  /\ \A i, j \in 1..Len(times) : i <= j => times[i] <= times[j]

\* Windows that begin with the requests in starts do not overlap, and none
\* lets more than Limit requests through.
SpacedOut(times, starts) ==
  \A i, j \in starts : i < j => times[j] >= times[i] + Window

Covered(times, starts) ==
  \A i \in 1..(Len(times) - Limit + 1) : \E j \in starts : j \in i..(i + Limit - 1)

\* The last window is the one that the entry of the address counts in.
CountsLast(times, starts, entry) ==
  /\ entry.count \in 1..Limit
  /\ Len(times) - entry.count + 1 \in starts
  /\ \A j \in starts : j <= Len(times) - entry.count + 1
  /\ entry.expiresAt = times[Len(times) - entry.count + 1] + Window

AllOver(times, starts) == \A j \in starts : times[j] + Window <= clock

WindowsOK(l, a) ==
  LET times == admitted[l][a] IN
  \E starts \in SUBSET (1..Len(times)) :
    /\ SpacedOut(times, starts)
    /\ Covered(times, starts)
    /\ a \in DOMAIN limiter[l] => CountsLast(times, starts, limiter[l][a])
    /\ a \notin DOMAIN limiter[l] => AllOver(times, starts)

LimitsOK ==
  \A l \in Limiters, a \in Addresses :
    /\ TimesOK(admitted[l][a])
    /\ <<l, a>> \notin evicted => WindowsOK(l, a)

LimitEntries == [count : Nat, expiresAt : Nat, place : Nat]
ChallengeEntries == [nonce : Nat, expiresAt : Nat, place : Nat]

Table(map, Entries) == IsFiniteSet(DOMAIN map) /\ map \in [DOMAIN map -> Entries]

TablesOK ==
  /\ Table(challenges, ChallengeEntries)
  /\ \A l \in Limiters : Table(limiter[l], LimitEntries)

HttpBase == HttpTypeOK /\ TablesOK

(***************************************************************************)
(* The Map.                                                                *)
(***************************************************************************)
(* An entry that is kept changes at most its place.                        *)
LEMMA KeepEntry ==
  ASSUME NEW map, NEW keys, IsFiniteSet(keys)
  PROVE  /\ DOMAIN Keep(map, keys) = keys
         /\ Keep(map, keys) = [key \in keys |-> Keep(map, keys)[key]]
         /\ \A key \in keys : \E n \in Nat :
              Keep(map, keys)[key] = [map[key] EXCEPT !.place = n]
  <1> DEFINE Rank(key) == {k \in keys : map[k].place <= map[key].place}
  <1>1. ASSUME NEW key \in keys
        PROVE  Cardinality(Rank(key)) \in Nat
    <2>1. IsFiniteSet(Rank(key))
      BY FS_Subset
    <2> QED BY <2>1, FS_CardinalityType
  <1>2. Keep(map, keys) =
          [key \in keys |-> [map[key] EXCEPT !.place = Cardinality(Rank(key))]]
    BY DEF Keep
  <1> HIDE DEF Rank
  <1> QED BY <1>1, <1>2

LEMMA KeepLimits ==
  ASSUME NEW map, Table(map, LimitEntries), NEW keys, keys \subseteq DOMAIN map
  PROVE  /\ Table(Keep(map, keys), LimitEntries)
         /\ DOMAIN Keep(map, keys) = keys
         /\ \A key \in keys :
              /\ Keep(map, keys)[key].count = map[key].count
              /\ Keep(map, keys)[key].expiresAt = map[key].expiresAt
  <1>1. IsFiniteSet(keys)
    BY FS_Subset DEF Table
  <1> DEFINE new == Keep(map, keys)
  <1>2. ASSUME NEW key \in keys
        PROVE  /\ new[key] \in LimitEntries
               /\ new[key].count = map[key].count
               /\ new[key].expiresAt = map[key].expiresAt
    <2>1. map[key] \in LimitEntries
      BY DEF Table
    <2>2. \E n \in Nat : new[key] = [map[key] EXCEPT !.place = n]
      BY <1>1, KeepEntry
    <2> HIDE DEF new
    <2> QED BY <2>1, <2>2 DEF LimitEntries
  <1>3. DOMAIN new = keys /\ new = [key \in keys |-> new[key]]
    BY <1>1, KeepEntry
  <1> HIDE DEF new
  <1>4. Table(new, LimitEntries)
    BY <1>1, <1>2, <1>3 DEF Table
  <1> QED BY <1>2, <1>3, <1>4 DEF new

LEMMA KeepChallenges ==
  ASSUME NEW map, Table(map, ChallengeEntries), NEW keys, keys \subseteq DOMAIN map
  PROVE  /\ Table(Keep(map, keys), ChallengeEntries)
         /\ DOMAIN Keep(map, keys) = keys
         /\ \A key \in keys :
              /\ Keep(map, keys)[key].nonce = map[key].nonce
              /\ Keep(map, keys)[key].expiresAt = map[key].expiresAt
  <1>1. IsFiniteSet(keys)
    BY FS_Subset DEF Table
  <1> DEFINE new == Keep(map, keys)
  <1>2. ASSUME NEW key \in keys
        PROVE  /\ new[key] \in ChallengeEntries
               /\ new[key].nonce = map[key].nonce
               /\ new[key].expiresAt = map[key].expiresAt
    <2>1. map[key] \in ChallengeEntries
      BY DEF Table
    <2>2. \E n \in Nat : new[key] = [map[key] EXCEPT !.place = n]
      BY <1>1, KeepEntry
    <2> HIDE DEF new
    <2> QED BY <2>1, <2>2 DEF ChallengeEntries
  <1>3. DOMAIN new = keys /\ new = [key \in keys |-> new[key]]
    BY <1>1, KeepEntry
  <1> HIDE DEF new
  <1>4. Table(new, ChallengeEntries)
    BY <1>1, <1>2, <1>3 DEF Table
  <1> QED BY <1>2, <1>3, <1>4 DEF new

(* A key that is put into the table is there, and no other entry changes.  *)
LEMMA PutLimit ==
  ASSUME NEW map, Table(map, LimitEntries), NEW key, NEW entry \in LimitEntries
  PROVE  /\ Table(Put(map, key, entry), LimitEntries)
         /\ DOMAIN Put(map, key, entry) = DOMAIN map \cup {key}
         /\ \A k \in DOMAIN map \ {key} : Put(map, key, entry)[k] = map[k]
  <1> DEFINE place == IF key \in DOMAIN map THEN map[key].place
                      ELSE Cardinality(DOMAIN map) + 1
             new == [entry EXCEPT !.place = place]
             put == Put(map, key, entry)
  <1>1. place \in Nat
    BY FS_CardinalityType DEF Table, LimitEntries
  <1>2. put = [k \in DOMAIN map \cup {key} |-> IF k = key THEN new ELSE map[k]]
    BY DEF Put
  <1>3. IsFiniteSet(DOMAIN map \cup {key})
    BY FS_AddElement DEF Table
  <1> HIDE DEF place, put
  <1>4. new \in LimitEntries /\ new.count = entry.count /\ new.expiresAt = entry.expiresAt
    BY <1>1 DEF LimitEntries
  <1> HIDE DEF new
  <1>5. /\ DOMAIN put = DOMAIN map \cup {key}
        /\ \A k \in DOMAIN map \ {key} : put[k] = map[k]
        /\ put[key] = new
    BY <1>2
  <1>6. put \in [DOMAIN put -> LimitEntries]
    BY <1>2, <1>4, <1>5 DEF Table
  <1> QED BY <1>3, <1>4, <1>5, <1>6 DEF Table, put

LEMMA PutLimitNew ==
  ASSUME NEW map, NEW key, NEW entry \in LimitEntries
  PROVE  /\ Put(map, key, entry)[key].count = entry.count
         /\ Put(map, key, entry)[key].expiresAt = entry.expiresAt
  <1>1. \E n : Put(map, key, entry)[key] = [entry EXCEPT !.place = n]
    BY DEF Put
  <1> QED BY <1>1 DEF LimitEntries

LEMMA PutChallenge ==
  ASSUME NEW map, Table(map, ChallengeEntries), NEW key, NEW entry \in ChallengeEntries
  PROVE  /\ Table(Put(map, key, entry), ChallengeEntries)
         /\ DOMAIN Put(map, key, entry) = DOMAIN map \cup {key}
         /\ \A k \in DOMAIN map \ {key} : Put(map, key, entry)[k] = map[k]
  <1> DEFINE place == IF key \in DOMAIN map THEN map[key].place
                      ELSE Cardinality(DOMAIN map) + 1
             new == [entry EXCEPT !.place = place]
             put == Put(map, key, entry)
  <1>1. place \in Nat
    BY FS_CardinalityType DEF Table, ChallengeEntries
  <1>2. put = [k \in DOMAIN map \cup {key} |-> IF k = key THEN new ELSE map[k]]
    BY DEF Put
  <1>3. IsFiniteSet(DOMAIN map \cup {key})
    BY FS_AddElement DEF Table
  <1> HIDE DEF place, put
  <1>4. new \in ChallengeEntries /\ new.nonce = entry.nonce /\ new.expiresAt = entry.expiresAt
    BY <1>1 DEF ChallengeEntries
  <1> HIDE DEF new
  <1>5. /\ DOMAIN put = DOMAIN map \cup {key}
        /\ \A k \in DOMAIN map \ {key} : put[k] = map[k]
        /\ put[key] = new
    BY <1>2
  <1>6. put \in [DOMAIN put -> ChallengeEntries]
    BY <1>2, <1>4, <1>5 DEF Table
  <1> QED BY <1>3, <1>4, <1>5, <1>6 DEF Table, put

LEMMA PutChallengeNew ==
  ASSUME NEW map, NEW key, NEW entry \in ChallengeEntries
  PROVE  /\ Put(map, key, entry)[key].nonce = entry.nonce
         /\ Put(map, key, entry)[key].expiresAt = entry.expiresAt
  <1>1. \E n : Put(map, key, entry)[key] = [entry EXCEPT !.place = n]
    BY DEF Put
  <1> QED BY <1>1 DEF ChallengeEntries

(* Pruning, and making room, drop entries and change no other.             *)
LEMMA PruneLimits ==
  ASSUME NEW map, Table(map, LimitEntries)
  PROVE  /\ Table(Prune(map), LimitEntries)
         /\ DOMAIN Prune(map) = {k \in DOMAIN map : map[k].expiresAt > clock}
         /\ \A k \in DOMAIN Prune(map) :
              /\ Prune(map)[k].count = map[k].count
              /\ Prune(map)[k].expiresAt = map[k].expiresAt
  BY KeepLimits DEF Prune

LEMMA RoomLimits ==
  ASSUME NEW map, Table(map, LimitEntries), NEW size
  PROVE  /\ Table(MakeRoom(map, size), LimitEntries)
         /\ DOMAIN MakeRoom(map, size) \subseteq DOMAIN map
         /\ \A k \in DOMAIN MakeRoom(map, size) :
              /\ MakeRoom(map, size)[k].count = map[k].count
              /\ MakeRoom(map, size)[k].expiresAt = map[k].expiresAt
  <1>1. {k \in DOMAIN map : map[k].place # 1} \subseteq DOMAIN map
    OBVIOUS
  <1>2. CASE Cardinality(DOMAIN map) >= size
    <2>1. MakeRoom(map, size) = Keep(map, {k \in DOMAIN map : map[k].place # 1})
      BY <1>2 DEF MakeRoom
    <2> QED BY <1>1, <2>1, KeepLimits
  <1>3. CASE ~(Cardinality(DOMAIN map) >= size)
    BY <1>3 DEF MakeRoom
  <1> QED BY <1>2, <1>3

LEMMA PruneChallenges ==
  ASSUME NEW map, Table(map, ChallengeEntries)
  PROVE  /\ Table(Prune(map), ChallengeEntries)
         /\ DOMAIN Prune(map) \subseteq DOMAIN map
         /\ \A k \in DOMAIN Prune(map) :
              /\ Prune(map)[k].nonce = map[k].nonce
              /\ Prune(map)[k].expiresAt = map[k].expiresAt
  <1>1. {k \in DOMAIN map : map[k].expiresAt > clock} \subseteq DOMAIN map
    OBVIOUS
  <1> QED BY <1>1, KeepChallenges DEF Prune

LEMMA RoomChallenges ==
  ASSUME NEW map, Table(map, ChallengeEntries), NEW size
  PROVE  /\ Table(MakeRoom(map, size), ChallengeEntries)
         /\ DOMAIN MakeRoom(map, size) \subseteq DOMAIN map
         /\ \A k \in DOMAIN MakeRoom(map, size) :
              /\ MakeRoom(map, size)[k].nonce = map[k].nonce
              /\ MakeRoom(map, size)[k].expiresAt = map[k].expiresAt
  <1>1. {k \in DOMAIN map : map[k].place # 1} \subseteq DOMAIN map
    OBVIOUS
  <1>2. CASE Cardinality(DOMAIN map) >= size
    <2>1. MakeRoom(map, size) = Keep(map, {k \in DOMAIN map : map[k].place # 1})
      BY <1>2 DEF MakeRoom
    <2> QED BY <1>1, <2>1, KeepChallenges
  <1>3. CASE ~(Cardinality(DOMAIN map) >= size)
    BY <1>3 DEF MakeRoom
  <1> QED BY <1>2, <1>3

(***************************************************************************)
(* The windows of one address.                                             *)
(***************************************************************************)
(* One more request in a window that is not full.                          *)
LEMMA OneMore ==
  ASSUME NEW times \in Seq(Nat), NEW time \in Nat,
         NEW starts \in SUBSET (1..Len(times)),
         NEW entry \in LimitEntries, NEW next \in LimitEntries,
         SpacedOut(times, starts), Covered(times, starts),
         CountsLast(times, starts, entry), entry.count < Limit,
         next.count = entry.count + 1, next.expiresAt = entry.expiresAt
  PROVE  LET more == Append(times, time) IN
           /\ starts \in SUBSET (1..Len(more))
           /\ SpacedOut(more, starts) /\ Covered(more, starts)
           /\ CountsLast(more, starts, next)
  <1> DEFINE more == Append(times, time)
             n == Len(times)
             s == n - entry.count + 1
  <1>1. Limit \in Nat \ {0} /\ Window \in Nat \ {0}
    BY HttpAssumption
  <1>2. /\ n \in Nat /\ Len(more) = n + 1
        /\ \A i \in 1..n : more[i] = times[i]
    OBVIOUS
  <1>3. /\ entry.count \in 1..Limit /\ s \in starts
        /\ \A j \in starts : j <= s
        /\ entry.expiresAt = times[s] + Window
    BY DEF CountsLast
  <1> HIDE DEF more, n
  <1>4. SpacedOut(more, starts)
    BY <1>2 DEF SpacedOut, n
  <1>5. Covered(more, starts)
    <2> SUFFICES ASSUME NEW i \in 1..(Len(more) - Limit + 1)
                 PROVE  \E j \in starts : j \in i..(i + Limit - 1)
      BY DEF Covered
    <2>3. i \in 1..(n + 1 - Limit + 1)
      BY <1>1, <1>2
    <2>1. CASE i \in 1..(n - Limit + 1)
      BY <2>1 DEF Covered, n
    <2>2. CASE i = n + 1 - Limit + 1
      <3>1. s \in i..(i + Limit - 1)
        <4> DEFINE count == entry.count
        <4>1. count \in 1..Limit /\ count < Limit
          BY <1>3
        <4> HIDE DEF count
        <4>2. n - count + 1 \in i..(i + Limit - 1)
          BY <1>1, <1>2, <2>2, <4>1
        <4> QED BY <4>2 DEF count
      <3> QED BY <1>3, <3>1
    <2> QED BY <1>1, <1>2, <2>1, <2>2, <2>3
  <1>6. CountsLast(more, starts, next)
    <2>1. Len(more) - next.count + 1 = s
      BY <1>2, <1>3
    <2>2. s \in 1..n /\ next.count \in 1..Limit
      <3>1. s \in 1..n
        BY <1>3 DEF n
      <3>2. next.count \in 1..Limit
        BY <1>1, <1>3
      <3> QED BY <3>1, <3>2
    <2>3. next.expiresAt = more[s] + Window
      BY <1>2, <1>3, <2>2
    <2> HIDE DEF s
    <2> QED BY <1>3, <2>1, <2>2, <2>3 DEF CountsLast
  <1> QED BY <1>2, <1>4, <1>5, <1>6 DEF more, n

(* The first request of a new window.                                      *)
LEMMA NewWindow ==
  ASSUME NEW times \in Seq(Nat), NEW starts \in SUBSET (1..Len(times)),
         clock \in Nat, NEW next \in LimitEntries,
         SpacedOut(times, starts), Covered(times, starts), AllOver(times, starts),
         next.count = 1, next.expiresAt = clock + Window
  PROVE  LET more == Append(times, clock)
             also == starts \cup {Len(times) + 1}
         IN /\ also \in SUBSET (1..Len(more))
            /\ SpacedOut(more, also) /\ Covered(more, also)
            /\ CountsLast(more, also, next)
  <1> DEFINE more == Append(times, clock)
             n == Len(times)
             also == starts \cup {n + 1}
  <1>1. Limit \in Nat \ {0} /\ Window \in Nat \ {0}
    BY HttpAssumption
  <1>2. /\ n \in Nat /\ Len(more) = n + 1
        /\ \A i \in 1..n : more[i] = times[i] /\ times[i] \in Nat
        /\ more[n + 1] = clock
        /\ starts \subseteq 1..n
    OBVIOUS
  <1> HIDE DEF more, n
  <1>3. SpacedOut(more, also)
    <2> SUFFICES ASSUME NEW i \in also, NEW j \in also, i < j
                 PROVE  more[j] >= more[i] + Window
      BY DEF SpacedOut
    <2>1. i \in starts
      BY <1>2
    <2>2. CASE j \in starts
      BY <1>2, <2>1, <2>2 DEF SpacedOut
    <2>3. CASE j = n + 1
      BY <1>1, <1>2, <2>1, <2>3 DEF AllOver
    <2> QED BY <2>2, <2>3
  <1>4. Covered(more, also)
    <2> SUFFICES ASSUME NEW i \in 1..(Len(more) - Limit + 1)
                 PROVE  \E j \in also : j \in i..(i + Limit - 1)
      BY DEF Covered
    <2>3. i \in 1..(n + 1 - Limit + 1)
      BY <1>1, <1>2
    <2>1. CASE i \in 1..(n - Limit + 1)
      BY <2>1 DEF Covered, n
    <2>2. CASE i = n + 1 - Limit + 1
      <3>1. n + 1 \in i..(i + Limit - 1)
        BY <1>1, <1>2, <2>2
      <3> QED BY <3>1
    <2> QED BY <1>1, <1>2, <2>1, <2>2, <2>3
  <1>5. CountsLast(more, also, next)
    <2>1. Len(more) - next.count + 1 = n + 1
      BY <1>2
    <2>2. next.count \in 1..Limit
      BY <1>1
    <2>3. \A j \in also : j <= n + 1
      BY <1>2
    <2>4. next.expiresAt = more[n + 1] + Window
      BY <1>2
    <2> QED BY <2>1, <2>2, <2>3, <2>4 DEF CountsLast
  <1>6. also \in SUBSET (1..Len(more))
    BY <1>2
  <1> QED BY <1>3, <1>4, <1>5, <1>6 DEF more, n

(* When the last window is over all of them are.                           *)
LEMMA LastIsOver ==
  ASSUME NEW times \in Seq(Nat), NEW starts \in SUBSET (1..Len(times)),
         clock \in Nat, NEW entry \in LimitEntries,
         SpacedOut(times, starts), CountsLast(times, starts, entry),
         entry.expiresAt <= clock
  PROVE  AllOver(times, starts)
  <1> DEFINE s == Len(times) - entry.count + 1
  <1>1. Window \in Nat \ {0}
    BY HttpAssumption
  <1>2. /\ s \in starts
        /\ \A j \in starts : j <= s
        /\ entry.expiresAt = times[s] + Window
    BY DEF CountsLast
  <1> HIDE DEF s
  <1>3. \A j \in starts : times[j] \in Nat /\ j \in Nat
    OBVIOUS
  <1>4. ASSUME NEW j \in starts
        PROVE  times[j] + Window <= clock
    <2>1. CASE j = s
      BY <1>2, <2>1
    <2>2. CASE j < s
      <3>1. times[s] >= times[j] + Window
        BY <1>2, <2>2 DEF SpacedOut
      <3> QED BY <1>1, <1>2, <1>3, <3>1
    <2> QED BY <1>2, <1>3, <2>1, <2>2
  <1> QED BY <1>4 DEF AllOver

(* What the windows say of an interval of their length.                    *)
LEMMA TwoWindows ==
  ASSUME NEW times \in Seq(Nat), NEW starts \in SUBSET (1..Len(times)), NEW t \in Nat,
         \A i, j \in 1..Len(times) : i <= j => times[i] <= times[j],
         SpacedOut(times, starts), Covered(times, starts)
  PROVE  Within(times, t, t + Window - 1) <= 2 * Limit - 1
  <1> DEFINE n == Len(times)
             inside == {i \in DOMAIN times : times[i] \in t..(t + Window - 1)}
  <1>1. Limit \in Nat \ {0} /\ Window \in Nat \ {0}
    BY HttpAssumption
  <1>2. /\ n \in Nat /\ DOMAIN times = 1..n
        /\ \A i \in 1..n : times[i] \in Nat
    OBVIOUS
  <1>3. CASE inside = {}
    <2>1. Cardinality(inside) = 0
      BY <1>3, FS_EmptySet
    <2> QED BY <1>1, <2>1 DEF Within
  <1>4. CASE inside # {}
    <2>1. inside \subseteq 1..n
      BY <1>2
    <2>2. PICK first \in inside : \A i \in inside : first <= i
      <3>1. inside \subseteq Nat
        BY <1>2
      <3> HIDE DEF inside
      <3>2. PICK x \in inside : \A y \in inside : ~(<<y, x>> \in OpToRel(<, Nat))
        BY <1>4, <3>1, NatLessThanWellFounded, WFMin
      <3>3. \A y \in inside : ~(y < x)
        BY <3>1, <3>2 DEF OpToRel
      <3> QED BY <3>1, <3>3
    <2>3. first \in 1..n /\ times[first] \in t..(t + Window - 1)
      BY <1>2
    <2>4. ASSUME NEW i \in inside
          PROVE  i <= first + 2 * Limit - 2
      <3> SUFFICES ASSUME i >= first + 2 * Limit - 1 PROVE FALSE
        BY <1>1, <2>1, <2>3
      <3>1. i \in 1..n /\ times[i] \in t..(t + Window - 1)
        BY <1>2
      <3> HIDE DEF inside, n
      <3>2. /\ first \in 1..(n - Limit + 1)
            /\ first + Limit \in 1..(n - Limit + 1)
        BY <1>1, <1>2, <2>3, <3>1
      <3>3. PICK j \in starts : j \in first..(first + Limit - 1)
        BY <3>2 DEF Covered, n
      <3>4. PICK k \in starts : k \in (first + Limit)..(first + Limit + Limit - 1)
        BY <3>2 DEF Covered, n
      <3>5. j \in 1..n /\ k \in 1..n
        BY DEF n
      <3>6. j < k /\ k <= i /\ first <= j
        BY <1>1, <2>3, <3>1, <3>3, <3>4, <3>5
      <3>7. times[k] >= times[j] + Window
        BY <3>6 DEF SpacedOut
      <3>8. times[first] <= times[j] /\ times[k] <= times[i]
        BY <2>3, <3>1, <3>5, <3>6 DEF n
      <3>9. times[first] \in Nat /\ times[j] \in Nat /\ times[k] \in Nat /\ times[i] \in Nat
        BY <1>2, <2>3, <3>1, <3>5
      <3> DEFINE p == times[first]
                 q == times[j]
                 r == times[k]
                 x == times[i]
      <3>10. p \in Nat /\ q \in Nat /\ r \in Nat /\ x \in Nat
        BY <3>9
      <3>11. p <= q /\ r >= q + Window /\ r <= x
        BY <3>7, <3>8
      <3>12. p >= t /\ x <= t + Window - 1
        BY <1>1, <2>3, <3>1
      <3> HIDE DEF p, q, r, x
      <3> QED BY <1>1, <3>10, <3>11, <3>12
    <2>5. inside \subseteq first..(first + 2 * Limit - 2)
      BY <1>1, <2>1, <2>2, <2>3, <2>4
    <2>6. /\ IsFiniteSet(first..(first + 2 * Limit - 2))
          /\ Cardinality(first..(first + 2 * Limit - 2)) = 2 * Limit - 1
      <3>1. first \in Int /\ first + 2 * Limit - 2 \in Int
        BY <1>1, <2>3
      <3>2. /\ ~(first > first + 2 * Limit - 2)
            /\ (first + 2 * Limit - 2) - first + 1 = 2 * Limit - 1
        BY <1>1, <2>3
      <3> QED BY <3>1, <3>2, FS_Interval
    <2>7. IsFiniteSet(inside) /\ Cardinality(inside) <= 2 * Limit - 1
      BY <2>5, <2>6, FS_Subset
    <2> QED BY <2>7 DEF Within
  <1> QED BY <1>3, <1>4

(***************************************************************************)
(* The limiters.                                                           *)
(***************************************************************************)
\* The limiter l has the same entry for a, or still none, or has dropped one
\* whose window is over.
Rests(l, a) ==
  \/ /\ a \in DOMAIN limiter[l] /\ a \in DOMAIN limiter'[l]
     /\ limiter'[l][a].count = limiter[l][a].count
     /\ limiter'[l][a].expiresAt = limiter[l][a].expiresAt
  \/ a \notin DOMAIN limiter[l] /\ a \notin DOMAIN limiter'[l]
  \/ /\ a \in DOMAIN limiter[l] /\ a \notin DOMAIN limiter'[l]
     /\ limiter[l][a].expiresAt <= clock

\* It counts one more request of a, or begins a window for it.
CountsOne(l, a) ==
  /\ a \in DOMAIN limiter[l]
  /\ limiter[l][a].count < Limit
  /\ limiter'[l][a].count = limiter[l][a].count + 1
  /\ limiter'[l][a].expiresAt = limiter[l][a].expiresAt

BeginsWindow(l, a) ==
  /\ a \in DOMAIN limiter[l] => limiter[l][a].expiresAt <= clock
  /\ limiter'[l][a].count = 1
  /\ limiter'[l][a].expiresAt = clock + Window

(* A new entry is put in, after another one was dropped from a full table. *)
LEMMA EntersEffect ==
  ASSUME NEW map, Table(map, LimitEntries), NEW a, clock \in Nat
  PROVE  /\ Table(Enters(map, a), LimitEntries)
         /\ a \in DOMAIN Enters(map, a)
         /\ DOMAIN Enters(map, a) \subseteq DOMAIN map \cup {a}
         /\ \A k \in DOMAIN Enters(map, a) \ {a} :
              /\ Enters(map, a)[k].count = map[k].count
              /\ Enters(map, a)[k].expiresAt = map[k].expiresAt
         /\ Enters(map, a)[a].count = 1
         /\ Enters(map, a)[a].expiresAt = clock + Window
  <1> DEFINE room == MakeRoom(map, MaxKeys)
             begin == Entry(1, clock + Window)
  <1>1. begin \in LimitEntries /\ begin.count = 1 /\ begin.expiresAt = clock + Window
    BY HttpAssumption DEF Entry, LimitEntries
  <1>2. /\ Table(room, LimitEntries)
        /\ DOMAIN room \subseteq DOMAIN map
        /\ \A k \in DOMAIN room : /\ room[k].count = map[k].count
                                  /\ room[k].expiresAt = map[k].expiresAt
    BY RoomLimits
  <1>3. Enters(map, a) = Put(room, a, begin)
    BY DEF Enters
  <1> HIDE DEF room, begin
  <1>4. /\ Table(Put(room, a, begin), LimitEntries)
        /\ DOMAIN Put(room, a, begin) = DOMAIN room \cup {a}
        /\ \A k \in DOMAIN room \ {a} : Put(room, a, begin)[k] = room[k]
    BY <1>1, <1>2, PutLimit
  <1>5. /\ Put(room, a, begin)[a].count = begin.count
        /\ Put(room, a, begin)[a].expiresAt = begin.expiresAt
    BY <1>1, PutLimitNew
  <1> QED BY <1>1, <1>2, <1>3, <1>4, <1>5

(* What letting a through does to the tables.                              *)
LEMMA AllowsEffect ==
  ASSUME HttpBase, NEW l \in Limiters, NEW a \in Addresses, Allows(l, a)
  PROVE  /\ DOMAIN limiter' = Limiters
         /\ \A m \in Limiters : Table(limiter'[m], LimitEntries)
         /\ \A m \in Limiters \ {l} : limiter'[m] = limiter[m]
         /\ a \in DOMAIN limiter'[l]
         /\ CountsOne(l, a) \/ BeginsWindow(l, a)
         /\ \A k : k # a => Rests(l, k) \/ <<l, k>> \in evicted'
         /\ evicted \subseteq evicted'
  <1> DEFINE old == limiter[l]
             map == Prune(old)
             next == IF a \in DOMAIN map THEN Counted(map, a) ELSE Enters(map, a)
  <1>1. /\ ~OverLimit(map, a)
        /\ limiter' = [limiter EXCEPT ![l] = next]
        /\ evicted' = evicted \cup {<<l, k>> : k \in DOMAIN map \ DOMAIN next}
    BY DEF Allows
  <1>2. /\ Limit \in Nat \ {0} /\ Window \in Nat \ {0} /\ clock \in Nat
        /\ DOMAIN limiter = Limiters
        /\ \A m \in Limiters : Table(limiter[m], LimitEntries)
    BY HttpAssumption DEF HttpBase, HttpTypeOK, TablesOK
  <1>3. /\ Table(map, LimitEntries)
        /\ DOMAIN map = {k \in DOMAIN old : old[k].expiresAt > clock}
        /\ \A k \in DOMAIN map : /\ map[k].count = old[k].count
                                 /\ map[k].expiresAt = old[k].expiresAt
    BY <1>2, PruneLimits
  <1>4. /\ Table(next, LimitEntries)
        /\ a \in DOMAIN next
        /\ DOMAIN next \subseteq DOMAIN map \cup {a}
        /\ \A k \in DOMAIN next \ {a} : /\ next[k].count = old[k].count
                                        /\ next[k].expiresAt = old[k].expiresAt
        /\ \/ /\ a \in DOMAIN old /\ old[a].count < Limit
              /\ next[a].count = old[a].count + 1
              /\ next[a].expiresAt = old[a].expiresAt
           \/ /\ a \in DOMAIN old => old[a].expiresAt <= clock
              /\ next[a].count = 1
              /\ next[a].expiresAt = clock + Window
    <2>1. CASE a \in DOMAIN map
      <3>1. next = [map EXCEPT ![a].count = @ + 1]
        BY <2>1 DEF Counted
      <3>2. map[a] \in LimitEntries /\ map \in [DOMAIN map -> LimitEntries]
        BY <1>3, <2>1 DEF Table
      <3>3. map[a].count < Limit
        BY <1>1, <1>2, <2>1, <3>2 DEF OverLimit, LimitEntries
      <3>4. a \in DOMAIN old
        BY <1>3, <2>1
      <3> HIDE DEF next, map, old
      <3>5. DOMAIN next = DOMAIN map /\ \A k \in DOMAIN map \ {a} : next[k] = map[k]
        BY <3>1, <3>2
      <3>6. /\ next[a] = [map[a] EXCEPT !.count = map[a].count + 1]
        BY <2>1, <3>1, <3>2
      <3>7. /\ next[a] \in LimitEntries
            /\ next[a].count = map[a].count + 1
            /\ next[a].expiresAt = map[a].expiresAt
        BY <3>2, <3>6 DEF LimitEntries
      <3>8. Table(next, LimitEntries)
        <4>1. next \in [DOMAIN next -> LimitEntries]
          BY <3>1, <3>2, <3>5, <3>7
        <4> QED BY <1>3, <3>5, <4>1 DEF Table
      <3> QED BY <1>3, <2>1, <3>3, <3>4, <3>5, <3>7, <3>8
    <2>2. CASE a \notin DOMAIN map
      <3>1. next = Enters(map, a)
        BY <2>2
      <3> HIDE DEF next, map, old
      <3>4. /\ Table(next, LimitEntries)
            /\ a \in DOMAIN next
            /\ DOMAIN next \subseteq DOMAIN map \cup {a}
            /\ \A k \in DOMAIN next \ {a} : /\ next[k].count = map[k].count
                                           /\ next[k].expiresAt = map[k].expiresAt
            /\ next[a].count = 1 /\ next[a].expiresAt = clock + Window
        BY <1>2, <1>3, <3>1, EntersEffect
      <3>6. a \in DOMAIN old => old[a].expiresAt <= clock
        <4>1. a \in DOMAIN old => old[a] \in LimitEntries
          BY <1>2 DEF Table, old
        <4> QED BY <1>2, <1>3, <2>2, <4>1 DEF LimitEntries
      <3>7. \A k \in DOMAIN next \ {a} : /\ next[k].count = old[k].count
                                         /\ next[k].expiresAt = old[k].expiresAt
        BY <1>3, <3>4
      <3> QED BY <3>4, <3>6, <3>7
    <2> QED BY <2>1, <2>2
  <1> HIDE DEF next, map
  <1>5. /\ DOMAIN limiter' = Limiters
        /\ limiter'[l] = next
        /\ \A m \in Limiters \ {l} : limiter'[m] = limiter[m]
    BY <1>1, <1>2
  <1>6. \A m \in Limiters : Table(limiter'[m], LimitEntries)
    BY <1>2, <1>4, <1>5
  <1>7. CountsOne(l, a) \/ BeginsWindow(l, a)
    BY <1>4, <1>5 DEF CountsOne, BeginsWindow
  <1>8. ASSUME NEW k, k # a
        PROVE  Rests(l, k) \/ <<l, k>> \in evicted'
    <2>1. CASE k \in DOMAIN next
      <3>1. k \in DOMAIN old
        BY <1>3, <1>4, <1>8, <2>1
      <3> QED BY <1>4, <1>5, <1>8, <2>1, <3>1 DEF Rests
    <2>2. CASE k \notin DOMAIN next /\ k \in DOMAIN map
      BY <1>1, <2>2
    <2>3. CASE k \notin DOMAIN next /\ k \notin DOMAIN map
      <3>1. k \in DOMAIN old => old[k].expiresAt \in Nat
        BY <1>2 DEF Table, LimitEntries
      <3>2. k \in DOMAIN old => old[k].expiresAt <= clock
        BY <1>2, <1>3, <2>3, <3>1
      <3> QED BY <1>5, <2>3, <3>2 DEF Rests
    <2> QED BY <2>1, <2>2, <2>3
  <1> QED BY <1>1, <1>4, <1>5, <1>6, <1>7, <1>8

(* A refusal only prunes.                                                  *)
LEMMA RefusesEffect ==
  ASSUME HttpBase, NEW l \in Limiters, NEW a, Refuses(l, a)
  PROVE  /\ DOMAIN limiter' = Limiters
         /\ \A m \in Limiters : Table(limiter'[m], LimitEntries)
         /\ \A m \in Limiters \ {l} : limiter'[m] = limiter[m]
         /\ \A k : Rests(l, k)
         /\ UNCHANGED <<admitted, evicted>>
  <1> DEFINE old == limiter[l]
             map == Prune(old)
  <1>1. limiter' = [limiter EXCEPT ![l] = map] /\ UNCHANGED <<admitted, evicted>>
    BY DEF Refuses
  <1>2. /\ clock \in Nat
        /\ DOMAIN limiter = Limiters
        /\ \A m \in Limiters : Table(limiter[m], LimitEntries)
    BY DEF HttpBase, HttpTypeOK, TablesOK
  <1>3. /\ Table(map, LimitEntries)
        /\ DOMAIN map = {k \in DOMAIN old : old[k].expiresAt > clock}
        /\ \A k \in DOMAIN map : /\ map[k].count = old[k].count
                                 /\ map[k].expiresAt = old[k].expiresAt
    BY <1>2, PruneLimits
  <1> HIDE DEF map
  <1>4. /\ DOMAIN limiter' = Limiters
        /\ limiter'[l] = map
        /\ \A m \in Limiters \ {l} : limiter'[m] = limiter[m]
    BY <1>1, <1>2
  <1>5. \A m \in Limiters : Table(limiter'[m], LimitEntries)
    BY <1>2, <1>3, <1>4
  <1>6. ASSUME NEW k
        PROVE  Rests(l, k)
    <2>1. k \in DOMAIN old => old[k].expiresAt \in Nat
      BY <1>2 DEF Table, LimitEntries
    <2> QED BY <1>2, <1>3, <1>4, <2>1 DEF Rests
  <1> QED BY <1>1, <1>4, <1>5, <1>6

(* Nothing is let through for a: its windows are as they were.             *)
LEMMA WindowsRest ==
  ASSUME HttpBase, NEW l \in Limiters, NEW a \in Addresses,
         clock' \in Nat, clock' >= clock, admitted'[l][a] = admitted[l][a],
         TimesOK(admitted[l][a]), Rests(l, a)
  PROVE  /\ TimesOK(admitted[l][a])'
         /\ WindowsOK(l, a) => WindowsOK(l, a)'
  <1> DEFINE times == admitted[l][a]
  <1>1. /\ times \in Seq(Nat) /\ clock \in Nat /\ Window \in Nat
        /\ Table(limiter[l], LimitEntries)
    BY HttpAssumption DEF HttpBase, HttpTypeOK, TablesOK
  <1>2. \A i \in 1..Len(times) : times[i] \in Nat
    BY <1>1
  <1>3. TimesOK(times)'
    <2>1. times' = times
      OBVIOUS
    <2>2. \A i \in 1..Len(times) : times[i] <= clock'
      BY <1>1, <1>2 DEF TimesOK
    <2>3. \A i, j \in 1..Len(times) : i <= j => times[i] <= times[j]
      BY DEF TimesOK
    <2> HIDE DEF times
    <2> QED BY <2>1, <2>2, <2>3 DEF TimesOK
  <1>4. ASSUME WindowsOK(l, a)
        PROVE  WindowsOK(l, a)'
    <2>1. PICK starts \in SUBSET (1..Len(times)) :
            /\ SpacedOut(times, starts)
            /\ Covered(times, starts)
            /\ a \in DOMAIN limiter[l] => CountsLast(times, starts, limiter[l][a])
            /\ a \notin DOMAIN limiter[l] => AllOver(times, starts)
      BY <1>4 DEF WindowsOK
    <2>2. a \in DOMAIN limiter'[l] => CountsLast(times, starts, limiter'[l][a])
      BY <2>1 DEF Rests, CountsLast
    <2>3. a \notin DOMAIN limiter'[l] => AllOver(times, starts)
      <3>1. CASE a \in DOMAIN limiter[l] /\ limiter[l][a].expiresAt <= clock
        <4>1. limiter[l][a] \in LimitEntries
          BY <1>1, <3>1 DEF Table
        <4> HIDE DEF times
        <4> QED BY <1>1, <2>1, <3>1, <4>1, LastIsOver
      <3>2. CASE a \notin DOMAIN limiter[l]
        BY <2>1, <3>2
      <3> QED BY <3>1, <3>2 DEF Rests
    <2>4. AllOver(times, starts) => AllOver(times, starts)'
      <3> SUFFICES ASSUME AllOver(times, starts), NEW j \in starts
                   PROVE  times'[j] + Window <= clock'
        BY DEF AllOver
      <3>1. times[j] \in Nat /\ times'[j] = times[j] /\ Window \in Nat
        BY <1>1, <1>2, HttpAssumption
      <3>2. times[j] + Window <= clock
        BY DEF AllOver
      <3> HIDE DEF times
      <3> QED BY <1>1, <3>1, <3>2
    <2>5. /\ times' = times
          /\ SpacedOut(times, starts)' /\ Covered(times, starts)'
      BY <2>1 DEF SpacedOut, Covered
    <2>6. a \in DOMAIN limiter'[l] => CountsLast(times, starts, limiter[l][a])'
      BY <2>2, <2>5 DEF CountsLast
    <2> QED BY <2>3, <2>4, <2>5, <2>6 DEF WindowsOK
  <1> QED BY <1>3, <1>4

(* A limiter that lets a through adds to its history, and to no other.     *)
LEMMA AllowsAdmits ==
  ASSUME HttpBase, NEW l \in Limiters, NEW a \in Addresses, Allows(l, a)
  PROVE  /\ admitted' \in [Limiters -> [Addresses -> Seq(Nat)]]
         /\ admitted'[l][a] = Append(admitted[l][a], clock)
         /\ \A m \in Limiters, b \in Addresses :
              m # l \/ b # a => admitted'[m][b] = admitted[m][b]
  <1>1. /\ admitted \in [Limiters -> [Addresses -> Seq(Nat)]]
        /\ clock \in Nat
    BY DEF HttpBase, HttpTypeOK
  <1>2. admitted' = [admitted EXCEPT ![l][a] = Append(@, clock)]
    BY DEF Allows
  <1>3. Append(admitted[l][a], clock) \in Seq(Nat)
    <2>1. admitted[l][a] \in Seq(Nat)
      BY <1>1
    <2> QED BY <1>1, <2>1
  <1> QED BY <1>1, <1>2, <1>3

(* One more time, the latest, keeps the times in order.                    *)
LEMMA TimesAppend ==
  ASSUME NEW times \in Seq(Nat), clock \in Nat, TimesOK(times)
  PROVE  TimesOK(Append(times, clock))
  <1> DEFINE more == Append(times, clock)
             n == Len(times)
  <1>1. /\ n \in Nat /\ Len(more) = n + 1
        /\ \A i \in 1..n : more[i] = times[i] /\ times[i] \in Nat
        /\ more[n + 1] = clock
    OBVIOUS
  <1>2. \A i \in 1..n : more[i] <= clock
    BY <1>1 DEF TimesOK
  <1>3. \A i, j \in 1..n : i <= j => more[i] <= more[j]
    BY <1>1 DEF TimesOK
  <1> HIDE DEF more, n
  <1>4. \A i \in 1..Len(more) : more[i] <= clock
    BY <1>1, <1>2
  <1>5. ASSUME NEW i \in 1..Len(more), NEW j \in 1..Len(more), i <= j
        PROVE  more[i] <= more[j]
    <2>1. CASE j = n + 1
      BY <1>1, <1>4, <2>1
    <2>2. CASE j # n + 1
      <3>1. i \in 1..n /\ j \in 1..n
        BY <1>1, <1>5, <2>2
      <3> QED BY <1>3, <1>5, <3>1
    <2> QED BY <2>1, <2>2
  <1> QED BY <1>4, <1>5 DEF TimesOK, more

(* A request of a was let through: its windows are still in order.         *)
LEMMA WindowsAdmit ==
  ASSUME HttpBase, NEW l \in Limiters, NEW a \in Addresses, Allows(l, a),
         UNCHANGED clock, WindowsOK(l, a)
  PROVE  WindowsOK(l, a)'
  <1> DEFINE times == admitted[l][a]
             more == Append(times, clock)
             entry == limiter[l][a]
             next == limiter'[l][a]
  <1>1. /\ times \in Seq(Nat) /\ clock \in Nat
        /\ Table(limiter[l], LimitEntries)
    BY DEF HttpBase, HttpTypeOK, TablesOK
  <1>2. /\ Table(limiter'[l], LimitEntries)
        /\ a \in DOMAIN limiter'[l]
        /\ CountsOne(l, a) \/ BeginsWindow(l, a)
    BY AllowsEffect
  <1>3. next \in LimitEntries /\ (a \in DOMAIN limiter[l] => entry \in LimitEntries)
    BY <1>1, <1>2 DEF Table
  <1>4. PICK starts \in SUBSET (1..Len(times)) :
          /\ SpacedOut(times, starts)
          /\ Covered(times, starts)
          /\ a \in DOMAIN limiter[l] => CountsLast(times, starts, entry)
          /\ a \notin DOMAIN limiter[l] => AllOver(times, starts)
    BY DEF WindowsOK
  <1> HIDE DEF times, entry, next
  <1>5. \E also \in SUBSET (1..Len(more)) :
          /\ SpacedOut(more, also) /\ Covered(more, also)
          /\ CountsLast(more, also, next)
    <2>1. CASE CountsOne(l, a)
      <3>1. /\ a \in DOMAIN limiter[l]
            /\ entry.count < Limit
            /\ next.count = entry.count + 1
            /\ next.expiresAt = entry.expiresAt
        BY <2>1 DEF CountsOne, entry, next
      <3> QED BY <1>1, <1>3, <1>4, <3>1, OneMore
    <2>2. CASE BeginsWindow(l, a)
      <3>1. /\ a \in DOMAIN limiter[l] => entry.expiresAt <= clock
            /\ next.count = 1 /\ next.expiresAt = clock + Window
        BY <2>2 DEF BeginsWindow, entry, next
      <3>2. AllOver(times, starts)
        BY <1>1, <1>3, <1>4, <3>1, LastIsOver
      <3> QED BY <1>1, <1>3, <1>4, <3>1, <3>2, NewWindow
    <2> QED BY <1>2, <2>1, <2>2
  <1>6. admitted'[l][a] = more
    BY AllowsAdmits DEF times
  <1>7. PICK also \in SUBSET (1..Len(more)) :
          /\ SpacedOut(more, also) /\ Covered(more, also)
          /\ CountsLast(more, also, next)
    BY <1>5
  <1> HIDE DEF more
  <1>8. /\ SpacedOut(admitted[l][a], also)' /\ Covered(admitted[l][a], also)'
        /\ CountsLast(admitted[l][a], also, limiter[l][a])'
    BY <1>6, <1>7 DEF SpacedOut, Covered, CountsLast, next
  <1> QED BY <1>2, <1>6, <1>8 DEF WindowsOK

(* The steps of the limiters.                                              *)
LEMMA LimitsStep ==
  ASSUME HttpBase, LimitsOK, clock' \in Nat,
         \/ UNCHANGED limitVars /\ clock' >= clock
         \/ \E l \in Limiters, a \in Addresses :
              (Allows(l, a) \/ Refuses(l, a)) /\ UNCHANGED clock
  PROVE  /\ admitted' \in [Limiters -> [Addresses -> Seq(Nat)]]
         /\ DOMAIN limiter' = Limiters
         /\ \A l \in Limiters : Table(limiter'[l], LimitEntries)
         /\ LimitsOK'
  <1>1. /\ admitted \in [Limiters -> [Addresses -> Seq(Nat)]]
        /\ DOMAIN limiter = Limiters
        /\ \A l \in Limiters : Table(limiter[l], LimitEntries)
        /\ clock \in Nat
    BY DEF HttpBase, HttpTypeOK, TablesOK
  <1>2. CASE UNCHANGED limitVars /\ clock' >= clock
    <2>1. UNCHANGED <<limiter, admitted, evicted>>
      BY <1>2 DEF limitVars
    <2>2. \A l \in Limiters, a \in Addresses : Rests(l, a)
      BY <2>1 DEF Rests
    <2>3. ASSUME NEW l \in Limiters, NEW a \in Addresses
          PROVE  /\ TimesOK(admitted[l][a])'
                 /\ <<l, a>> \notin evicted => WindowsOK(l, a)'
      BY <1>2, <2>1, <2>2, WindowsRest DEF LimitsOK
    <2> QED BY <1>1, <2>1, <2>3 DEF LimitsOK
  <1>3. ASSUME NEW m \in Limiters, NEW b \in Addresses, Allows(m, b), UNCHANGED clock
        PROVE  /\ admitted' \in [Limiters -> [Addresses -> Seq(Nat)]]
               /\ DOMAIN limiter' = Limiters
               /\ \A l \in Limiters : Table(limiter'[l], LimitEntries)
               /\ LimitsOK'
    <2>1. /\ DOMAIN limiter' = Limiters
          /\ \A l \in Limiters : Table(limiter'[l], LimitEntries)
          /\ \A l \in Limiters \ {m} : limiter'[l] = limiter[l]
          /\ \A k : k # b => Rests(m, k) \/ <<m, k>> \in evicted'
          /\ evicted \subseteq evicted'
      BY <1>3, AllowsEffect
    <2>2. /\ admitted' \in [Limiters -> [Addresses -> Seq(Nat)]]
          /\ admitted'[m][b] = Append(admitted[m][b], clock)
          /\ \A l \in Limiters, a \in Addresses :
               l # m \/ a # b => admitted'[l][a] = admitted[l][a]
      BY <1>3, AllowsAdmits
    <2>3. ASSUME NEW l \in Limiters, NEW a \in Addresses
          PROVE  /\ TimesOK(admitted[l][a])'
                 /\ <<l, a>> \notin evicted' => WindowsOK(l, a)'
      <3>1. /\ TimesOK(admitted[l][a])
            /\ <<l, a>> \notin evicted' => WindowsOK(l, a)
        BY <2>1 DEF LimitsOK
      <3>2. CASE l = m /\ a = b
        <4>1. TimesOK(Append(admitted[l][a], clock))
          BY <1>1, <3>1, TimesAppend
        <4>2. TimesOK(admitted[l][a])'
          <5>1. admitted'[l][a] = Append(admitted[l][a], clock)
            BY <2>2, <3>2
          <5>2. clock' = clock
            BY <1>3
          <5> QED BY ONLY <4>1, <5>1, <5>2 DEF TimesOK
        <4> QED BY <1>3, <3>1, <3>2, <4>2, WindowsAdmit
      <3>3. CASE l # m \/ a # b
        <4>1. admitted'[l][a] = admitted[l][a]
          BY <2>2, <3>3
        <4>2. Rests(l, a) \/ <<l, a>> \in evicted'
          BY <2>1, <3>3 DEF Rests
        <4>3. TimesOK(admitted[l][a])'
          BY <1>3, <3>1, <4>1 DEF TimesOK
        <4>4. Rests(l, a) => (WindowsOK(l, a) => WindowsOK(l, a)')
          BY <1>1, <1>3, <3>1, <4>1, WindowsRest
        <4> QED BY <3>1, <4>2, <4>3, <4>4
      <3> QED BY <3>2, <3>3
    <2> QED BY <2>1, <2>2, <2>3 DEF LimitsOK
  <1>4. ASSUME NEW m \in Limiters, NEW b \in Addresses, Refuses(m, b), UNCHANGED clock
        PROVE  /\ admitted' \in [Limiters -> [Addresses -> Seq(Nat)]]
               /\ DOMAIN limiter' = Limiters
               /\ \A l \in Limiters : Table(limiter'[l], LimitEntries)
               /\ LimitsOK'
    <2>1. /\ DOMAIN limiter' = Limiters
          /\ \A l \in Limiters : Table(limiter'[l], LimitEntries)
          /\ \A l \in Limiters \ {m} : limiter'[l] = limiter[l]
          /\ \A k : Rests(m, k)
          /\ UNCHANGED <<admitted, evicted>>
      BY <1>4, RefusesEffect
    <2>2. \A l \in Limiters, a \in Addresses : Rests(l, a)
      BY <2>1 DEF Rests
    <2>3. ASSUME NEW l \in Limiters, NEW a \in Addresses
          PROVE  /\ TimesOK(admitted[l][a])'
                 /\ <<l, a>> \notin evicted => WindowsOK(l, a)'
      BY <1>1, <1>4, <2>1, <2>2, WindowsRest DEF LimitsOK
    <2> QED BY <1>1, <2>1, <2>3 DEF LimitsOK
  <1> QED BY <1>2, <1>3, <1>4

(***************************************************************************)
(* Challenges and sessions.                                                *)
(***************************************************************************)
(* What a new challenge does to the table of pending ones.                 *)
LEMMA CreateEffect ==
  ASSUME HttpBase, NEW a, CreateChallenge(a)
  PROVE  /\ Table(challenges', ChallengeEntries)
         /\ DOMAIN challenges' \subseteq DOMAIN challenges \cup {a}
         /\ \A k \in DOMAIN challenges' \ {a} :
              /\ challenges'[k].nonce = challenges[k].nonce
              /\ challenges'[k].expiresAt = challenges[k].expiresAt
         /\ challenges'[a].nonce = Len(issuedAt) + 1
         /\ challenges'[a].expiresAt = clock + ChallengeLife
  <1> DEFINE kept == Prune(challenges)
             room == MakeRoom(kept, MaxChallenges)
             fresh == [nonce |-> Len(issuedAt) + 1,
                       expiresAt |-> clock + ChallengeLife, place |-> 0]
  <1>1. /\ Table(challenges, ChallengeEntries)
        /\ clock \in Nat /\ issuedAt \in Seq(Nat)
        /\ ChallengeLife \in Nat
    BY HttpAssumption DEF HttpBase, HttpTypeOK, TablesOK
  <1>2. /\ fresh \in ChallengeEntries
        /\ fresh.nonce = Len(issuedAt) + 1
        /\ fresh.expiresAt = clock + ChallengeLife
    BY <1>1 DEF ChallengeEntries
  <1>3. /\ Table(kept, ChallengeEntries)
        /\ DOMAIN kept \subseteq DOMAIN challenges
        /\ \A k \in DOMAIN kept : /\ kept[k].nonce = challenges[k].nonce
                                  /\ kept[k].expiresAt = challenges[k].expiresAt
    BY <1>1, PruneChallenges
  <1> HIDE DEF kept
  <1>4. /\ Table(room, ChallengeEntries)
        /\ DOMAIN room \subseteq DOMAIN kept
        /\ \A k \in DOMAIN room : /\ room[k].nonce = kept[k].nonce
                                  /\ room[k].expiresAt = kept[k].expiresAt
    BY <1>3, RoomChallenges
  <1>5. challenges' = Put(room, a, fresh)
    BY DEF CreateChallenge, kept
  <1> HIDE DEF room, fresh
  <1>6. /\ Table(Put(room, a, fresh), ChallengeEntries)
        /\ DOMAIN Put(room, a, fresh) = DOMAIN room \cup {a}
        /\ \A k \in DOMAIN room \ {a} : Put(room, a, fresh)[k] = room[k]
    <2>1. Table(room, ChallengeEntries) /\ fresh \in ChallengeEntries
      BY <1>2, <1>4
    <2> QED BY ONLY <2>1, PutChallenge
  <1>7. /\ Put(room, a, fresh)[a].nonce = fresh.nonce
        /\ Put(room, a, fresh)[a].expiresAt = fresh.expiresAt
    BY <1>2, PutChallengeNew
  <1> QED BY <1>2, <1>3, <1>4, <1>5, <1>6, <1>7

LEMMA CreateKeepsAuth ==
  ASSUME HttpBase, AuthOK, NEW a, CreateChallenge(a), UNCHANGED session
  PROVE  /\ issuedAt' \in Seq(Nat) /\ opened' \in Seq(Nat)
         /\ AuthOK'
  <1> DEFINE n == Len(issuedAt)
  <1>1. /\ clock \in Nat /\ issuedAt \in Seq(Nat) /\ opened \in Seq(Nat)
        /\ Len(opened) = n
    BY DEF HttpBase, HttpTypeOK, AuthOK
  <1>2. issuedAt' = Append(issuedAt, clock) /\ opened' = Append(opened, 0)
    BY DEF CreateChallenge
  <1>3. /\ issuedAt' \in Seq(Nat) /\ opened' \in Seq(Nat)
        /\ n \in Nat /\ Len(issuedAt') = n + 1 /\ Len(opened') = n + 1
        /\ \A i \in 1..n : issuedAt'[i] = issuedAt[i] /\ opened'[i] = opened[i]
        /\ issuedAt'[n + 1] = clock /\ opened'[n + 1] = 0
    BY <1>1, <1>2
  <1>4. /\ \A k \in DOMAIN challenges' : k = a \/ k \in DOMAIN challenges
        /\ \A k \in DOMAIN challenges' \ {a} :
             /\ challenges'[k].nonce = challenges[k].nonce
             /\ challenges'[k].expiresAt = challenges[k].expiresAt
        /\ challenges'[a].nonce = n + 1
        /\ challenges'[a].expiresAt = clock + ChallengeLife
    BY CreateEffect
  <1> HIDE DEF n
  <1>5. \A i \in DOMAIN opened' : opened'[i] <= 1
    <2>1. \A i \in 1..n : opened[i] <= 1
      BY <1>1 DEF AuthOK
    <2> QED BY <1>3, <2>1
  <1>6. \A k \in DOMAIN challenges :
          /\ challenges[k].nonce \in 1..n
          /\ challenges[k].expiresAt = issuedAt[challenges[k].nonce] + ChallengeLife
          /\ opened[challenges[k].nonce] = 0
    BY DEF AuthOK, ChallengesOK, n
  <1>7. ChallengesOK'
    <2> SUFFICES ASSUME NEW k \in DOMAIN challenges'
                 PROVE  /\ challenges'[k].nonce \in 1..Len(issuedAt')
                        /\ challenges'[k].expiresAt
                             = issuedAt'[challenges'[k].nonce] + ChallengeLife
                        /\ opened'[challenges'[k].nonce] = 0
      BY DEF ChallengesOK
    <2>1. CASE k = a
      BY <1>3, <1>4, <2>1
    <2>2. CASE k # a
      BY <1>3, <1>4, <1>6, <2>2
    <2> QED BY <2>1, <2>2
  <1>8. DistinctChallenges'
    <2> SUFFICES ASSUME NEW j \in DOMAIN challenges', NEW k \in DOMAIN challenges',
                        challenges'[j].nonce = challenges'[k].nonce
                 PROVE  j = k
      BY DEF DistinctChallenges
    <2>1. CASE j = a \/ k = a
      BY <1>3, <1>4, <1>6, <2>1
    <2>2. CASE j # a /\ k # a
      BY <1>4, <2>2 DEF AuthOK, DistinctChallenges
    <2> QED BY <2>1, <2>2
  <1>9. SessionsOK'
    <2>1. \A c \in Clients :
            \/ session[c] \in {NoSession, EarlierSession}
            \/ /\ session[c].nonce \in 1..n
               /\ opened[session[c].nonce] = 1
               /\ session[c].expiresAt
                    <= issuedAt[session[c].nonce] + ChallengeLife + SessionLife
      BY DEF AuthOK, SessionsOK, n
    <2>2. NoSession' = NoSession /\ EarlierSession' = EarlierSession
      BY DEF NoSession, EarlierSession
    <2>3. \A i \in 1..n : i \in 1..(n + 1)
      BY <1>3
    <2> QED BY <1>3, <2>1, <2>2, <2>3 DEF SessionsOK
  <1> QED BY <1>3, <1>5, <1>7, <1>8, <1>9 DEF AuthOK

(* A signature that is accepted opens the session of its challenge, which  *)
(* is then gone.                                                           *)
LEMMA OpenKeepsAuth ==
  ASSUME HttpBase, AuthOK, NEW a, NEW nonce, NEW c \in Clients,
         AnswersChallenge(a, nonce), OpenSession(a, nonce), UNCHANGED issuedAt,
         \/ UNCHANGED session
         \/ session' = [session EXCEPT ![c] = IssuedSession(nonce)]
  PROVE  /\ opened' \in Seq(Nat)
         /\ Table(challenges', ChallengeEntries)
         /\ session' \in [Clients -> [nonce : Nat, expiresAt : Nat]]
         /\ AuthOK'
  <1> DEFINE n == Len(issuedAt)
  <1>1. /\ clock \in Nat /\ issuedAt \in Seq(Nat) /\ opened \in Seq(Nat)
        /\ Len(opened) = n /\ n \in Nat
        /\ SessionLife \in Nat
        /\ Table(challenges, ChallengeEntries)
        /\ session \in [Clients -> [nonce : Nat, expiresAt : Nat]]
    <2>1. SessionLife \in Nat
      BY HttpAssumption
    <2>2. Len(opened) = n
      BY DEF AuthOK
    <2> QED BY <2>1, <2>2 DEF HttpBase, HttpTypeOK, TablesOK
  <1>2. /\ a \in DOMAIN challenges
        /\ challenges[a].expiresAt >= clock
        /\ challenges[a].nonce = nonce
    BY DEF AnswersChallenge
  <1>3. \A k \in DOMAIN challenges :
          /\ challenges[k].nonce \in 1..n
          /\ challenges[k].expiresAt = issuedAt[challenges[k].nonce] + ChallengeLife
          /\ opened[challenges[k].nonce] = 0
    BY DEF AuthOK, ChallengesOK
  <1>4. opened' = [opened EXCEPT ![nonce] = @ + 1]
    BY DEF OpenSession
  <1>5. nonce \in 1..n /\ opened[nonce] = 0
    BY <1>2, <1>3
  <1>6. /\ opened' \in Seq(Nat) /\ Len(opened') = n /\ DOMAIN opened' = 1..n
        /\ opened'[nonce] = 1
        /\ \A i \in 1..n : i # nonce => opened'[i] = opened[i]
    BY <1>1, <1>4, <1>5
  <1>7. /\ Table(challenges', ChallengeEntries)
        /\ DOMAIN challenges' = DOMAIN challenges \ {a}
        /\ \A k \in DOMAIN challenges' :
             /\ challenges'[k].nonce = challenges[k].nonce
             /\ challenges'[k].expiresAt = challenges[k].expiresAt
    <2>2. challenges' = Keep(challenges, DOMAIN challenges \ {a})
      BY DEF OpenSession, Delete
    <2>3. Table(challenges, ChallengeEntries)
      BY <1>1
    <2> DEFINE rest == DOMAIN challenges \ {a}
    <2>4. rest \subseteq DOMAIN challenges
      OBVIOUS
    <2> HIDE DEF rest
    <2>5. /\ Table(Keep(challenges, rest), ChallengeEntries)
          /\ DOMAIN Keep(challenges, rest) = rest
          /\ \A k \in rest :
               /\ Keep(challenges, rest)[k].nonce = challenges[k].nonce
               /\ Keep(challenges, rest)[k].expiresAt = challenges[k].expiresAt
      BY ONLY <2>3, <2>4, KeepChallenges
    <2>6. challenges' = Keep(challenges, rest)
      BY <2>2 DEF rest
    <2>7. DOMAIN challenges' = rest
      BY <2>5, <2>6
    <2>8. \A k \in rest :
            /\ challenges'[k].nonce = challenges[k].nonce
            /\ challenges'[k].expiresAt = challenges[k].expiresAt
      BY <2>5, <2>6
    <2>9. Table(challenges', ChallengeEntries)
      BY <2>5, <2>6
    <2> QED BY <2>7, <2>8, <2>9 DEF rest
  <1>8. ChallengesOK' /\ DistinctChallenges'
    <2>1. \A k \in DOMAIN challenges' : challenges[k].nonce # nonce
      BY <1>2, <1>7 DEF AuthOK, DistinctChallenges
    <2>2. ChallengesOK'
      BY <1>3, <1>6, <1>7, <2>1 DEF ChallengesOK
    <2>3. DistinctChallenges'
      BY <1>7 DEF AuthOK, DistinctChallenges
    <2> QED BY <2>2, <2>3
  <1>9. \A i \in DOMAIN opened' : opened'[i] <= 1
    <2>1. \A i \in 1..n : opened[i] <= 1
      BY <1>1 DEF AuthOK
    <2> QED BY <1>6, <2>1
  <1>10. /\ IssuedSession(nonce).nonce = nonce
         /\ IssuedSession(nonce).expiresAt = clock + SessionLife
         /\ IssuedSession(nonce) \in [nonce : Nat, expiresAt : Nat]
    BY <1>1, <1>5 DEF IssuedSession
  <1>11. session' \in [Clients -> [nonce : Nat, expiresAt : Nat]]
    BY <1>1, <1>10
  <1>12. SessionsOK'
    <2>1. ASSUME NEW d \in Clients
          PROVE  \/ session'[d] \in {NoSession, EarlierSession}
                 \/ /\ session'[d].nonce \in 1..n
                    /\ opened'[session'[d].nonce] = 1
                    /\ session'[d].expiresAt
                         <= issuedAt[session'[d].nonce] + ChallengeLife + SessionLife
      <3>1. CASE session'[d] = session[d]
        <4>1. \/ session[d] \in {NoSession, EarlierSession}
              \/ /\ session[d].nonce \in 1..n
                 /\ opened[session[d].nonce] = 1
                 /\ session[d].expiresAt
                      <= issuedAt[session[d].nonce] + ChallengeLife + SessionLife
          BY DEF AuthOK, SessionsOK
        <4> QED BY <1>5, <1>6, <3>1, <4>1
      <3>2. CASE session'[d] = IssuedSession(nonce)
        <4>1. clock <= issuedAt[nonce] + ChallengeLife
          BY <1>2, <1>3
        <4>2. issuedAt[nonce] \in Nat /\ ChallengeLife \in Nat
          <5>1. ChallengeLife \in Nat
            BY HttpAssumption
          <5>2. issuedAt[nonce] \in Nat
            BY <1>1, <1>5
          <5> QED BY <5>1, <5>2
        <4>3. clock + SessionLife <= issuedAt[nonce] + ChallengeLife + SessionLife
          BY <1>1, <4>1, <4>2
        <4> QED BY <1>5, <1>6, <1>10, <3>2, <4>3
      <3> QED BY <1>1, <3>1, <3>2
    <2>2. NoSession' = NoSession /\ EarlierSession' = EarlierSession
      BY DEF NoSession, EarlierSession
    <2> QED BY <2>1, <2>2 DEF SessionsOK
  <1> QED BY <1>1, <1>6, <1>7, <1>8, <1>9, <1>11, <1>12 DEF AuthOK

(* Other steps leave the challenges alone; at most they end a session.     *)
LEMMA RestKeepsAuth ==
  ASSUME HttpBase, AuthOK, UNCHANGED <<challenges, issuedAt, opened>>,
         \/ UNCHANGED session
         \/ \E c \in Clients : session' = [session EXCEPT ![c] = NoSession]
  PROVE  /\ session' \in [Clients -> [nonce : Nat, expiresAt : Nat]]
         /\ AuthOK'
  <1>1. session \in [Clients -> [nonce : Nat, expiresAt : Nat]]
    BY DEF HttpBase, HttpTypeOK
  <1>2. NoSession \in [nonce : Nat, expiresAt : Nat]
    BY DEF NoSession
  <1>3. \A c \in Clients : session'[c] \in {session[c], NoSession}
    BY <1>1
  <1>4. session' \in [Clients -> [nonce : Nat, expiresAt : Nat]]
    BY <1>1, <1>2
  <1>5. NoSession' = NoSession /\ EarlierSession' = EarlierSession
    BY DEF NoSession, EarlierSession
  <1>6. SessionsOK'
    BY <1>3, <1>5 DEF AuthOK, SessionsOK
  <1>7. ChallengesOK' /\ DistinctChallenges'
    BY DEF AuthOK, ChallengesOK, DistinctChallenges
  <1> QED BY <1>4, <1>6, <1>7 DEF AuthOK

(***************************************************************************)
(* The steps of the process.                                               *)
(***************************************************************************)
\* What a client sends is read, up to the first await of its handler.
Reading(c) ==
  \/ SendsOpen(c)
  \/ \E step \in {"working", "creation", "request", "confirmation"} :
       StartWithSession(c, step)

LEMMA HttpSteps ==
  ASSUME [HttpNext]_httpVars
  PROVE  \/ UNCHANGED httpVars
         \/ \E c \in Clients :
              \/ Reading(c) \/ Logout(c) \/ Disconnect(c)
              \/ BodyOfChallenge(c) \/ BodyOfVerify(c) \/ BodyOfCreation(c)
              \/ BodyOfRequest(c) \/ BodyFails(c) \/ FoundForConfirmation(c)
              \/ ServiceEnds(c)
         \/ Signal \/ ForceTimer \/ ServerClosed \/ PoolEnded
         \/ Tick
  <1>1. ASSUME NEW c \in Clients, Sends(c)
        PROVE  Reading(c) \/ Logout(c)
    BY <1>1 DEF Sends, Reading, GetAgreements, PostAgreements, PostEvidence, PostWork,
                PostConfirm
  <1> QED BY <1>1 DEF HttpNext, HandlerGoesOn, Stopping

(* The limiters change when a participant's creation or confirmation comes *)
(* to them, and time passes only by itself.                                *)
LEMMA LimitMoves ==
  ASSUME HttpTypeOK, [HttpNext]_httpVars
  PROVE  /\ clock' \in Nat
         /\ \/ UNCHANGED limitVars /\ clock' >= clock
            \/ \E l \in Limiters, a \in Addresses :
                 (Allows(l, a) \/ Refuses(l, a)) /\ UNCHANGED clock
  <1>1. clock \in Nat
    BY DEF HttpTypeOK
  <1>2. CASE UNCHANGED <<clock, limitVars>>
    BY <1>1, <1>2
  <1>3. CASE Tick
    BY <1>1, <1>3 DEF Tick
  <1>4. ASSUME NEW c \in Clients, BodyOfCreation(c) \/ FoundForConfirmation(c)
        PROVE  UNCHANGED clock /\
               (UNCHANGED limitVars
                \/ \E l \in Limiters, a \in Addresses : Allows(l, a) \/ Refuses(l, a))
    <2>1. owner[c] \in Addresses
      BY DEF Addresses
    <2>2. "create" \in Limiters /\ "confirm" \in Limiters
      BY DEF Limiters
    <2> QED BY <1>4, <2>1, <2>2 DEF BodyOfCreation, FoundForConfirmation, Limited
  <1>5. ASSUME NEW c \in Clients,
               \/ Reading(c) \/ Logout(c) \/ Disconnect(c)
               \/ BodyOfChallenge(c) \/ BodyOfVerify(c)
               \/ BodyOfRequest(c) \/ BodyFails(c)
               \/ ServiceEnds(c)
        PROVE  UNCHANGED <<clock, limitVars>>
    BY <1>5 DEF Reading, SendsOpen, StartWithSession, Logout, Disconnect,
                BodyOfChallenge, BodyOfVerify, BodyOfRequest, BodyFails, ServiceEnds
  <1>6. CASE UNCHANGED httpVars \/ Signal \/ ForceTimer \/ ServerClosed \/ PoolEnded
    BY <1>2, <1>6 DEF httpVars, Signal, ForceTimer, ServerClosed, PoolEnded
  <1> QED BY <1>1, <1>2, <1>3, <1>4, <1>5, <1>6, HttpSteps

(* The challenges change when one is asked for or answered.                *)
LEMMA AuthStep ==
  ASSUME HttpBase, AuthOK, [HttpNext]_httpVars
  PROVE  /\ issuedAt' \in Seq(Nat) /\ opened' \in Seq(Nat)
         /\ message' \in [Clients -> Nat]
         /\ session' \in [Clients -> [nonce : Nat, expiresAt : Nat]]
         /\ Table(challenges', ChallengeEntries)
         /\ AuthOK'
  <1>1. /\ issuedAt \in Seq(Nat) /\ opened \in Seq(Nat)
        /\ message \in [Clients -> Nat]
        /\ session \in [Clients -> [nonce : Nat, expiresAt : Nat]]
        /\ Table(challenges, ChallengeEntries)
    BY DEF HttpBase, HttpTypeOK, TablesOK
  <1>2. ASSUME UNCHANGED authVars, UNCHANGED session \/ \E c \in Clients : Logout(c)
        PROVE  /\ session' \in [Clients -> [nonce : Nat, expiresAt : Nat]]
               /\ AuthOK'
               /\ UNCHANGED <<challenges, message, issuedAt, opened>>
    <2>1. UNCHANGED <<challenges, message, issuedAt, opened>>
      BY <1>2 DEF authVars
    <2>2. \/ UNCHANGED session
          \/ \E c \in Clients : session' = [session EXCEPT ![c] = NoSession]
      BY <1>2 DEF Logout
    <2> QED BY <2>1, <2>2, RestKeepsAuth
  <1>3. ASSUME NEW c \in Clients, BodyOfChallenge(c)
        PROVE  /\ issuedAt' \in Seq(Nat) /\ opened' \in Seq(Nat)
               /\ message' \in [Clients -> Nat]
               /\ UNCHANGED session
               /\ Table(challenges', ChallengeEntries)
               /\ AuthOK'
    <2>1. CreateChallenge(owner[c]) /\ UNCHANGED session
      BY <1>3 DEF BodyOfChallenge
    <2>2. message' \in [Clients -> Nat]
      <3>1. Len(issuedAt) + 1 \in Nat
        BY <1>1
      <3> QED BY <1>1, <1>3, <3>1 DEF BodyOfChallenge
    <2> QED BY <2>1, <2>2, CreateEffect, CreateKeepsAuth
  <1>4. ASSUME NEW c \in Clients, BodyOfVerify(c)
        PROVE  /\ issuedAt' \in Seq(Nat) /\ opened' \in Seq(Nat)
               /\ message' \in [Clients -> Nat]
               /\ session' \in [Clients -> [nonce : Nat, expiresAt : Nat]]
               /\ Table(challenges', ChallengeEntries)
               /\ AuthOK'
    <2>1. UNCHANGED <<message, issuedAt>>
      BY <1>4 DEF BodyOfVerify
    <2>2. CASE UNCHANGED <<challenges, opened, session>>
      BY <1>1, <2>1, <2>2, RestKeepsAuth
    <2>3. CASE /\ AnswersChallenge(owner[c], message[c])
               /\ OpenSession(owner[c], message[c])
               /\ session' = [session EXCEPT ![c] =
                    IF socket[c] = "busy" THEN IssuedSession(message[c]) ELSE @]
      <3>1. \/ UNCHANGED session
            \/ session' = [session EXCEPT ![c] = IssuedSession(message[c])]
        BY <1>1, <2>3
      <3> QED BY <1>1, <2>1, <2>3, <3>1, OpenKeepsAuth
    <2> QED BY <1>4, <2>2, <2>3 DEF BodyOfVerify
  <1>5. ASSUME NEW c \in Clients,
               \/ Reading(c) \/ Disconnect(c)
               \/ BodyOfCreation(c) \/ BodyOfRequest(c) \/ BodyFails(c)
               \/ FoundForConfirmation(c) \/ ServiceEnds(c)
        PROVE  UNCHANGED <<authVars, session>>
    BY <1>5 DEF Reading, SendsOpen, StartWithSession, Disconnect, BodyOfCreation,
                BodyOfRequest, BodyFails, FoundForConfirmation, ServiceEnds
  <1>6. ASSUME NEW c \in Clients, Logout(c)
        PROVE  UNCHANGED authVars
    BY <1>6 DEF Logout
  <1>7. CASE \/ UNCHANGED httpVars
             \/ Signal \/ ForceTimer \/ ServerClosed \/ PoolEnded \/ Tick
    <2>1. UNCHANGED <<authVars, session>>
      BY <1>7 DEF httpVars, Signal, ForceTimer, ServerClosed, PoolEnded, Tick
    <2> QED BY <1>1, <1>2, <2>1
  <1> QED BY <1>1, <1>2, <1>3, <1>4, <1>5, <1>6, <1>7, HttpSteps

(***************************************************************************)
(* Connections and the shutdown.                                           *)
(***************************************************************************)
\* The connections and handlers have the values of HttpTypeOK.
ConnectionsOK ==
  /\ handler \in [Clients -> HandlerSteps]
  /\ socket \in [Clients -> {"closed", "idle", "busy"}]
  /\ shutdown \in [phase : {"running", "closing", "ending", "clean", "forced", "failed"},
                   deadline : Nat, forced : BOOLEAN]

(* A connection that is closed is opened only while the process runs.      *)
LEMMA ConnectionsStep ==
  ASSUME HttpTypeOK, PoolOK, [HttpNext]_httpVars
  PROVE  ConnectionsOK' /\ PoolOK'
  <1>1. ConnectionsOK /\ clock \in Nat /\ GracePeriod \in Nat
    BY HttpAssumption DEF HttpTypeOK, ConnectionsOK
  <1>2. ASSUME UNCHANGED stopVars, handler' \in [Clients -> HandlerSteps],
               socket' \in [Clients -> {"closed", "idle", "busy"}],
               \A d \in Clients : socket[d] = "closed" =>
                 socket'[d] = "closed" \/ shutdown.phase = "running"
        PROVE  ConnectionsOK' /\ PoolOK'
    BY <1>1, <1>2 DEF stopVars, ConnectionsOK, PoolOK
  <1>3. ASSUME NEW c \in Clients, NEW what \in HandlerSteps, Answers(c, what),
               UNCHANGED stopVars
        PROVE  ConnectionsOK' /\ PoolOK'
    BY <1>1, <1>2, <1>3 DEF Answers, ConnectionsOK
  <1>4. ASSUME NEW c \in Clients, NEW step \in HandlerSteps, Waits(c, step),
               UNCHANGED stopVars
        PROVE  ConnectionsOK' /\ PoolOK'
    BY <1>1, <1>2, <1>4 DEF Waits, ConnectionsOK
  <1>5. ASSUME NEW c \in Clients, NEW step \in HandlerSteps, Reaches(c),
               Begins(c, step), UNCHANGED stopVars
        PROVE  ConnectionsOK' /\ PoolOK'
    BY <1>1, <1>2, <1>5 DEF Reaches, Begins, ConnectionsOK
  <1>6. {"answered", "limited", "challenge", "verify", "creation", "request",
         "confirmation", "working"} \subseteq HandlerSteps
    BY DEF HandlerSteps
  <1>7. ASSUME NEW c \in Clients, Reading(c) \/ Logout(c)
        PROVE  ConnectionsOK' /\ PoolOK'
    <2>1. /\ Reaches(c) /\ UNCHANGED stopVars
          /\ \E step \in HandlerSteps : Begins(c, step)
      BY <1>6, <1>7 DEF Reading, SendsOpen, StartWithSession, Logout
    <2> QED BY <1>5, <2>1
  <1>8. ASSUME NEW c \in Clients,
               \/ BodyOfChallenge(c) \/ BodyOfVerify(c) \/ BodyOfCreation(c)
               \/ BodyOfRequest(c) \/ BodyFails(c) \/ FoundForConfirmation(c)
               \/ ServiceEnds(c)
        PROVE  ConnectionsOK' /\ PoolOK'
    <2>1. /\ UNCHANGED stopVars
          /\ \E step \in HandlerSteps : Answers(c, step) \/ Waits(c, step)
      BY <1>6, <1>8
      DEF BodyOfChallenge, BodyOfVerify, BodyOfCreation, BodyOfRequest, BodyFails,
          FoundForConfirmation, ServiceEnds, Limited
    <2> QED BY <1>3, <1>4, <2>1
  <1>9. ASSUME NEW c \in Clients, Disconnect(c)
        PROVE  ConnectionsOK' /\ PoolOK'
    BY <1>1, <1>2, <1>9 DEF Disconnect, ConnectionsOK
  <1>10. CASE Signal
    <2>1. socket' \in [Clients -> {"closed", "idle", "busy"}]
      <3>1. socket' = [c \in Clients |-> IF socket[c] \in {"idle"} THEN "closed" ELSE socket[c]]
        BY <1>10 DEF Signal, CloseSockets
      <3>2. \A c \in Clients : socket[c] \in {"closed", "idle", "busy"}
        BY <1>1 DEF ConnectionsOK
      <3> QED BY <3>1, <3>2
    <2>2. clock + GracePeriod \in Nat
      BY <1>1
    <2>3. shutdown' = [shutdown EXCEPT !.phase = "closing", !.deadline = clock + GracePeriod]
      BY <1>10 DEF Signal
    <2>4. /\ shutdown' \in [phase : {"running", "closing", "ending", "clean", "forced", "failed"},
                            deadline : Nat, forced : BOOLEAN]
          /\ shutdown'.phase = "closing"
      BY <1>1, <2>2, <2>3 DEF ConnectionsOK
    <2>5. handler' = handler /\ pool' = pool /\ shutdown.phase = "running"
      BY <1>10 DEF Signal
    <2>6. pool = "open"
      BY <2>5 DEF PoolOK
    <2>7. PoolOK'
      BY <2>4, <2>5, <2>6 DEF PoolOK
    <2>8. ConnectionsOK'
      BY <1>1, <2>1, <2>4, <2>5 DEF ConnectionsOK
    <2> QED BY <2>7, <2>8
  <1>11. CASE ForceTimer
    BY <1>1, <1>11 DEF ForceTimer, CloseSockets, ConnectionsOK, PoolOK
  <1>12. CASE ServerClosed
    BY <1>1, <1>12 DEF ServerClosed, ConnectionsOK, PoolOK
  <1>13. CASE PoolEnded
    BY <1>1, <1>13 DEF PoolEnded, ConnectionsOK, PoolOK
  <1>14. CASE UNCHANGED httpVars \/ Tick
    <2>1. UNCHANGED <<handler, socket, stopVars>>
      BY <1>14 DEF httpVars, Tick
    <2> QED BY <1>1, <1>2, <2>1 DEF ConnectionsOK
  <1> QED
    BY <1>7, <1>8, <1>9, <1>10, <1>11, <1>12, <1>13, <1>14, HttpSteps

(***************************************************************************)
(* The theorems.                                                           *)
(***************************************************************************)
HttpInv == HttpBase /\ PoolOK /\ AuthOK /\ LimitsOK

LEMMA HttpInvInit == HttpInit => HttpInv
  <1> SUFFICES ASSUME HttpInit PROVE HttpInv
    OBVIOUS
  <1>1. \A Entries : Table(EmptyMap, Entries)
    BY FS_EmptySet DEF Table, EmptyMap
  <1>2. NoSession \in [nonce : Nat, expiresAt : Nat]
        /\ EarlierSession \in [nonce : Nat, expiresAt : Nat]
    BY HttpAssumption DEF NoSession, EarlierSession
  <1>3. HttpTypeOK
    <2>1. session \in [Clients -> [nonce : Nat, expiresAt : Nat]]
      BY <1>2 DEF HttpInit
    <2>2. admitted \in [Limiters -> [Addresses -> Seq(Nat)]]
      BY DEF HttpInit
    <2> QED BY <2>1, <2>2 DEF HttpInit, HttpTypeOK, HandlerSteps
  <1>4. TablesOK
    BY <1>1 DEF HttpInit, TablesOK
  <1>5. PoolOK
    BY DEF HttpInit, PoolOK
  <1>6. AuthOK
    <2>1. DOMAIN challenges = {}
      BY DEF HttpInit, EmptyMap
    <2>2. \A c \in Clients : session[c] \in {NoSession, EarlierSession}
      BY DEF HttpInit
    <2>3. Len(opened) = 0 /\ Len(issuedAt) = 0 /\ DOMAIN opened = {}
      BY DEF HttpInit
    <2> QED BY <2>1, <2>2, <2>3 DEF AuthOK, ChallengesOK, DistinctChallenges, SessionsOK
  <1>7. LimitsOK
    <2> SUFFICES ASSUME NEW l \in Limiters, NEW a \in Addresses
                 PROVE  TimesOK(admitted[l][a]) /\ WindowsOK(l, a)
      BY DEF LimitsOK
    <2>1. admitted[l][a] = <<>> /\ Len(admitted[l][a]) = 0
      BY DEF HttpInit
    <2>2. DOMAIN limiter[l] = {}
      BY DEF HttpInit, EmptyMap
    <2>3. Limit \in Nat \ {0}
      BY HttpAssumption
    <2>4. /\ SpacedOut(admitted[l][a], {}) /\ Covered(admitted[l][a], {})
          /\ AllOver(admitted[l][a], {})
      BY <2>1, <2>3 DEF SpacedOut, Covered, AllOver
    <2>5. TimesOK(admitted[l][a])
      BY <2>1 DEF TimesOK
    <2>6. {} \in SUBSET (1..Len(admitted[l][a]))
      OBVIOUS
    <2> QED BY <2>2, <2>4, <2>5, <2>6 DEF WindowsOK
  <1> QED BY <1>3, <1>4, <1>5, <1>6, <1>7 DEF HttpInv, HttpBase

LEMMA HttpInvStep ==
  ASSUME HttpInv, [HttpNext]_httpVars
  PROVE  HttpInv'
  <1>1. /\ clock' \in Nat
        /\ \/ UNCHANGED limitVars /\ clock' >= clock
           \/ \E l \in Limiters, a \in Addresses :
                (Allows(l, a) \/ Refuses(l, a)) /\ UNCHANGED clock
    BY LimitMoves DEF HttpInv, HttpBase
  <1>2. /\ admitted' \in [Limiters -> [Addresses -> Seq(Nat)]]
        /\ DOMAIN limiter' = Limiters
        /\ \A l \in Limiters : Table(limiter'[l], LimitEntries)
        /\ LimitsOK'
    BY <1>1, LimitsStep DEF HttpInv
  <1>3. /\ issuedAt' \in Seq(Nat) /\ opened' \in Seq(Nat)
        /\ message' \in [Clients -> Nat]
        /\ session' \in [Clients -> [nonce : Nat, expiresAt : Nat]]
        /\ Table(challenges', ChallengeEntries)
        /\ AuthOK'
    BY AuthStep DEF HttpInv
  <1>4. ConnectionsOK' /\ PoolOK'
    BY ConnectionsStep DEF HttpInv, HttpBase
  <1>5. HttpTypeOK'
    BY <1>1, <1>2, <1>3, <1>4 DEF HttpTypeOK, ConnectionsOK
  <1>6. TablesOK'
    BY <1>2, <1>3 DEF TablesOK
  <1> QED BY <1>2, <1>3, <1>4, <1>5, <1>6 DEF HttpInv, HttpBase

LEMMA HttpInvariance == HttpSpec => []HttpInv
  BY HttpInvInit, HttpInvStep, PTL DEF HttpSpec

(* The process keeps values of the types the code gives them; its two      *)
(* limiters and its challenges are finite tables.                          *)
THEOREM HttpTypeCorrect == HttpSpec => [](HttpTypeOK /\ TablesOK)
  BY HttpInvariance, PTL DEF HttpInv, HttpBase

(* The database pool is there as long as any client waits for an answer.   *)
THEOREM PoolIsThereForClients == HttpSpec => []PoolOutlivesWaitingClients
  <1>1. HttpInv => PoolOutlivesWaitingClients
    BY DEF HttpInv, PoolOK, PoolOutlivesWaitingClients
  <1> QED BY <1>1, HttpInvariance, PTL

(* A signed challenge opens one session at most, however often and from    *)
(* however many clients the signature is sent.                             *)
THEOREM OneSessionPerChallenge == HttpSpec => []ChallengeOpensOneSession
  <1>1. HttpInv => ChallengeOpensOneSession
    BY DEF HttpInv, AuthOK, ChallengeOpensOneSession
  <1> QED BY <1>1, HttpInvariance, PTL

(* A session ends at most its own life after the last moment at which its  *)
(* challenge could be answered.                                            *)
THEOREM SessionsAreFresh == HttpSpec => []SessionRestsOnFreshSignature
  <1>1. HttpInv => SessionRestsOnFreshSignature
    BY DEF HttpInv, AuthOK, SessionsOK, SessionRestsOnFreshSignature
  <1> QED BY <1>1, HttpInvariance, PTL

(* In an interval as long as a window the limiter lets no more than twice  *)
(* the limit less one through for an address it has not forgotten.         *)
THEOREM WindowsLimitRequests == HttpSpec => []LimitedPerWindow
  <1>1. HttpInv => LimitedPerWindow
    <2> SUFFICES ASSUME HttpInv, NEW l \in Limiters, NEW a \in Addresses,
                        NEW t \in Times, <<l, a>> \notin evicted
                 PROVE  Within(admitted[l][a], t, t + Window - 1) <= 2 * Limit - 1
      BY DEF LimitedPerWindow
    <2>1. admitted[l][a] \in Seq(Nat) /\ t \in Nat
      BY HttpAssumption DEF HttpInv, HttpBase, HttpTypeOK, Times
    <2>2. TimesOK(admitted[l][a]) /\ WindowsOK(l, a)
      BY DEF HttpInv, LimitsOK
    <2>3. PICK starts \in SUBSET (1..Len(admitted[l][a])) :
            SpacedOut(admitted[l][a], starts) /\ Covered(admitted[l][a], starts)
      BY <2>2 DEF WindowsOK
    <2>4. \A i, j \in 1..Len(admitted[l][a]) :
            i <= j => admitted[l][a][i] <= admitted[l][a][j]
      BY <2>2 DEF TimesOK
    <2> QED BY <2>1, <2>3, <2>4, TwoWindows
  <1> QED BY <1>1, HttpInvariance, PTL
=============================================================================
