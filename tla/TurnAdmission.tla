---------------------------- MODULE TurnAdmission ----------------------------
(***************************************************************************)
(* The admission of turns in one API process: TurnConcurrencyLimiter of    *)
(* apps/api/src/services/chat-limits.ts.  A chat request (routes/chat.ts)  *)
(* is admitted, queued or refused by admit; a task (task-scheduler.ts) by  *)
(* acquire, which never queues.  Every method runs without an await, so it *)
(* is one step of the process and here a function of the limiter's state;  *)
(* what the model is about are the orders in which requests, ends of       *)
(* turns, timers, closed connections and the shutdown call them.           *)
(*                                                                         *)
(* A limit is an argument of each call: it follows the account's tier,     *)
(* which may have changed since the account's earlier calls.               *)
(***************************************************************************)
EXTENDS Sequences, Naturals, FiniteSets
LOCAL INSTANCE SequencesExt

CONSTANTS
  Entrants,      \* turns that ask for a slot
  EntrantOf,     \* the account of each
  Tasks,         \* the entrants that are runs of a task
  TurnLimits,    \* what concurrentTurnLimit may answer
  GlobalLimit, QueueLimit

Guests == {EntrantOf[c] : c \in Entrants}

ASSUME AdmissionAssumption ==
  GlobalLimit \in Nat \ {0} /\ QueueLimit \in Nat /\ TurnLimits \subseteq Nat

VARIABLES
  limiter,    \* the fields of the object, and what it answered to each entrant
  overtaken   \* history: the accounts granted a slot since this one waits

admissionVars == <<limiter, overtaken>>

AdmissionInit ==
  /\ limiter = [active |-> [a \in Guests |-> 0], totalActive |-> 0,
                queues |-> [a \in Guests |-> <<>>], queueOrder |-> <<>>,
                totalQueued |-> 0, closed |-> FALSE,
                limit |-> [c \in Entrants |-> 0],
                answer |-> [c \in Entrants |-> "none"]]
  /\ overtaken = [a \in Guests |-> {}]

-----------------------------------------------------------------------------
(* The methods, as functions of the limiter L.                             *)

AccountTurns(L, a) == L.active[a] + Len(L.queues[a])

grant(L, c) ==
  [L EXCEPT !.active[EntrantOf[c]] = @ + 1, !.totalActive = @ + 1,
            !.answer[c] = "admitted"]

refuse(L, c) == [L EXCEPT !.answer[c] = "refused"]

\* acquire may pass nobody who waits.
HasFreeSlot(L) == L.totalActive < GlobalLimit /\ L.totalQueued = 0

acquire(L, c, limit) ==
  IF ~L.closed /\ HasFreeSlot(L) /\ L.active[EntrantOf[c]] < limit
  THEN grant(L, c) ELSE refuse(L, c)

enqueue(L, c, limit) ==
  LET a == EntrantOf[c] IN
  [L EXCEPT !.queueOrder = IF L.queues[a] = <<>> THEN Append(@, a) ELSE @,
            !.queues[a] = Append(@, c), !.totalQueued = @ + 1,
            !.limit[c] = limit, !.answer[c] = "waits"]

\* Mutant: the account's waiters do not count.
IsWithinRunning(L, c, limit) == L.active[EntrantOf[c]] < limit

IsWithinLimit(L, c, limit) == AccountTurns(L, EntrantOf[c]) < limit

admitTurn(L, c, limit) ==
  CASE L.closed \/ ~IsWithinLimit(L, c, limit) -> refuse(L, c)
    [] ~L.closed /\ IsWithinLimit(L, c, limit) /\ HasFreeSlot(L) -> grant(L, c)
    [] OTHER -> IF L.totalQueued >= QueueLimit THEN refuse(L, c) ELSE enqueue(L, c, limit)

\* A waiter leaves its queue, and its account the order with its last one.
leaveQueue(L, c) ==
  LET a == EntrantOf[c]
      rest == Remove(L.queues[a], c)
  IN [L EXCEPT !.queues[a] = rest, !.totalQueued = @ - 1,
               !.queueOrder = IF rest = <<>> THEN Remove(@, a) ELSE @]

\* One pass of drain: accounts whose head waiter is beyond its limit go to the
\* back, the first other one is granted a slot and goes to the back as well.
Eligible(L) ==
  {i \in DOMAIN L.queueOrder :
     LET a == L.queueOrder[i] IN L.active[a] < L.limit[Head(L.queues[a])]}

Rotated(L, i) == SubSeq(L.queueOrder, i + 1, Len(L.queueOrder)) \o SubSeq(L.queueOrder, 1, i - 1)

\* Mutant: an account that still has waiters keeps its place.
ToTheFront(order, a) == <<a>> \o order

ToTheBack(order, a) == Append(order, a)

drainOne(L) ==
  LET i == CHOOSE j \in Eligible(L) : \A k \in Eligible(L) : j <= k
      a == L.queueOrder[i]
      rest == Tail(L.queues[a])
  IN grant([L EXCEPT !.queues[a] = rest, !.totalQueued = @ - 1,
                     !.queueOrder = IF rest = <<>> THEN Rotated(L, i) ELSE ToTheBack(Rotated(L, i), a)],
           Head(L.queues[a]))

drain(L) ==
  LET pass[n \in 0..L.totalQueued] ==
        IF n = 0 THEN L
        ELSE LET K == pass[n - 1]
             IN IF ~K.closed /\ K.totalActive < GlobalLimit /\ Eligible(K) # {}
                THEN drainOne(K) ELSE K
  IN pass[L.totalQueued]

release(L, c) ==
  drain([L EXCEPT !.active[EntrantOf[c]] = @ - 1, !.totalActive = @ - 1,
                  !.answer[c] = "released"])

closeLimiter(L) ==
  [L EXCEPT !.closed = TRUE, !.queues = [a \in Guests |-> <<>>], !.queueOrder = <<>>,
            !.totalQueued = 0,
            !.answer = [c \in Entrants |-> IF @[c] = "waits" THEN "refused" ELSE @[c]]]

-----------------------------------------------------------------------------
(* Who calls them.                                                         *)

Is(c, answer) == limiter.answer[c] = answer
Granted == {EntrantOf[c] : c \in {d \in Entrants : ~Is(d, "admitted") /\ limiter'.answer[d] = "admitted"}}
Waits(a) == limiter.queues[a] # <<>>

\* The limiter becomes L.
Becomes(L) ==
  /\ limiter' = L
  /\ overtaken' = [a \in Guests |->
       IF ~Waits(a) \/ a \in Granted THEN {} ELSE overtaken[a] \cup Granted]

RequestArrives(c) == c \notin Tasks /\ Is(c, "none") /\ \E n \in TurnLimits : Becomes(admitTurn(limiter, c, n))
TaskArrives(c) == c \in Tasks /\ Is(c, "none") /\ \E n \in TurnLimits : Becomes(acquire(limiter, c, n))
TurnEnds(c) == Is(c, "admitted") /\ Becomes(release(limiter, c))
\* The waiter's timer fires, or its client closes the connection.
GivesUp(c) == Is(c, "waits") /\ Becomes(refuse(leaveQueue(limiter, c), c))
ServerCloses == ~limiter.closed /\ Becomes(closeLimiter(limiter))

AdmissionNext ==
  \/ \E c \in Entrants : RequestArrives(c) \/ TaskArrives(c) \/ TurnEnds(c) \/ GivesUp(c)
  \/ ServerCloses

AdmissionSpec == AdmissionInit /\ [][AdmissionNext]_admissionVars

-----------------------------------------------------------------------------
(* Properties.                                                             *)

With(answer) == {c \in Entrants : Is(c, answer)}
Of(a, S) == {c \in S : EntrantOf[c] = a}

\* The counters that the limiter keeps beside its queues are the turns that
\* run and wait, never more than the process bears, and no turn waits beside
\* a free slot or behind its own account's limit: whatever order turns end in,
\* time out, are left by their clients or find another tier.
SlotsAreUsed ==
  /\ limiter.totalActive = Cardinality(With("admitted"))
  /\ limiter.totalActive <= GlobalLimit
  /\ limiter.totalQueued = Cardinality(With("waits"))
  /\ limiter.totalQueued > 0 => limiter.totalActive = GlobalLimit
  /\ \A a \in Guests :
       /\ limiter.active[a] = Cardinality(Of(a, With("admitted")))
       /\ \A i \in DOMAIN limiter.queues[a] :
            limiter.active[a] + i <= limiter.limit[limiter.queues[a][i]]

\* Slots go round: while a turn of one account waits, no other account is
\* granted a second one, however many turns it has in its queue or sends.
RoundRobin ==
  [][\A a \in Guests : Waits(a) /\ a \notin Granted => Granted \cap overtaken[a] = {}]_admissionVars
=============================================================================
