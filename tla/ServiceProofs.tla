--------------------------- MODULE ServiceProofs ---------------------------
(***************************************************************************)
(* The services on top of the authorization kernel and beside it: what     *)
(* their safety invariants rest on, proved for any turns, requests,        *)
(* workers and bounds.                                                     *)
(***************************************************************************)
EXTENDS TurnAuthorizationProofs, ChatTurns, Transcriptions, Uploads, AgentRuntimes,
        MediaGenerations, MemoryDreams, SequenceTheorems

-----------------------------------------------------------------------------
(* Chat turns: every step is a transaction of the kernel, or none.         *)

ChatPlaces == {"idle", "claim", "prepare", "stream", "partial", "repartial",
               "reverse", "reverseLock", "usage", "done"}

Callers == {"none", "throw", "internal", "report"}

TurnProcess ==
  [pc : ChatPlaces, marked : BOOLEAN, recorded : BOOLEAN, pending : BOOLEAN,
   terminal : BOOLEAN, refunded : BOOLEAN, back : Callers, delivered : BOOLEAN]

ReaperAt ==
  [pc : {"idle"}, todo : SUBSET Turns]
    \cup [pc : {"partial", "raced", "reverse", "lock"}, todo : SUBSET Turns, row : Turns]

ChatTypeOK ==
  /\ faults \in Nat
  /\ me \in [Turns -> TurnProcess]
  /\ expired \subseteq Turns
  /\ reaper \in ReaperAt

\* The client has output of a turn only after its mark or its settlement.
DeliveredKept(t) ==
  me[t].delivered => run[t] = "output" \/ authz[t].state = "settled"

-----------------------------------------------------------------------------
(* Chat turns that see no failure.                                         *)

UsageIsTerminal(t) == usage[t].status \in {"completed", "error"}

\* Nothing is left to do: the reservation has ended and its usage row stands.
Rested(t) == authz[t].state \in Terminal /\ UsageIsTerminal(t)

\* The rows of a turn none of whose calls failed.
CalmRows(t) ==
  /\ run[t] = "none" => usage[t].status = "none"
  /\ run[t] # "none" => usage[t].status # "none" /\ authz[t].state # "none"
  /\ UsageIsTerminal(t) => authz[t].state \in Terminal
  /\ UsageIsTerminal(t) /\ authz[t].state \in Refunded => usage[t].manna = 0

\* What its process remembers agrees with them at each of its places.
CalmProcess(t) ==
  /\ ~me[t].pending
  /\ me[t].marked <=> run[t] = "output"
  /\ me[t].recorded => UsageIsTerminal(t)
  /\ CASE me[t].pc \in {"idle", "claim"} ->
            run[t] = "none" /\ ~me[t].recorded /\ ~me[t].terminal
       [] me[t].pc = "prepare" ->
            run[t] # "none" /\ ~me[t].recorded /\ ~me[t].terminal
       [] me[t].pc = "stream" ->
            run[t] # "none" /\ (me[t].terminal => Rested(t))
       [] me[t].pc = "partial" ->
            run[t] = "output" /\ me[t].back # "throw"
       [] me[t].pc = "reverse" ->
            /\ run[t] # "none" /\ me[t].back # "throw"
            /\ run[t] = "output" => ~IsReserved(t)
       [] me[t].pc = "reverseLock" ->
            run[t] = "started" /\ me[t].back # "throw"
       [] me[t].pc = "usage" ->
            /\ run[t] # "none" /\ me[t].back # "throw"
            /\ me[t].refunded /\ authz[t].state \in Terminal
       [] me[t].pc = "done" -> run[t] # "none" => Rested(t)
       [] OTHER -> FALSE

Calm(t) == CalmRows(t) /\ CalmProcess(t)

ChatInv ==
  /\ IInv
  /\ ChatTypeOK
  /\ \A t \in Turns : DeliveredKept(t)
  /\ faults = 0 => \A t \in Turns : Calm(t)

-----------------------------------------------------------------------------
(* What the kernel's transactions do to the rows of a turn.                *)

RowsStay == UNCHANGED <<authz, run, usage>>

\* The rows of all other turns stay.
OthersStay(t) ==
  \A u \in Turns \ {t} : authz'[u] = authz[u] /\ run'[u] = run[u] /\ usage'[u] = usage[u]

KernelTypes ==
  /\ authz \in [Turns -> Authorization] /\ usage \in [Turns -> Usage]
  /\ run \in [Turns -> {"none", "started", "output"}]

LEMMA KernelTyped ==
  IInv => KernelTypes
BY DEF IInv, TypeOK, KernelTypes

LEMMA ReserveEffect ==
  ASSUME KernelTypes, NEW t \in Turns, reserveAuthorization(t)
  PROVE  /\ Next /\ OthersStay(t)
         /\ authz[t].state = "none" /\ authz'[t].state = "reserved"
         /\ run'[t] = run[t] /\ usage'[t] = usage[t]
<1>1. Next
  BY DEF Next
<1> QED
  BY <1>1 DEF reserveAuthorization, KernelTypes, OthersStay

LEMMA ClaimEffect ==
  ASSUME KernelTypes, NEW t \in Turns, claimTurnProviderStart(t)
  PROVE  /\ Next /\ OthersStay(t) /\ IsReserved(t)
         /\ run[t] = "none" /\ run'[t] = "started"
         /\ usage'[t].status = "provider_admitted" /\ authz' = authz
<1>1. Next
  BY DEF Next
<1> QED
  BY <1>1 DEF claimTurnProviderStart, KernelTypes, OthersStay

LEMMA MarkEffect ==
  ASSUME KernelTypes, NEW t \in Turns, markTurnUsableOutput(t)
  PROVE  /\ Next /\ OthersStay(t)
         /\ run[t] = "started" /\ run'[t] = "output"
         /\ authz' = authz /\ usage' = usage
<1>1. Next
  BY DEF Next
<1> QED
  BY <1>1 DEF markTurnUsableOutput, KernelTypes, OthersStay

LEMMA SettleEffect ==
  ASSUME KernelTypes, NEW t \in Turns, NEW c \in Amounts \cup {0}, settleTerminal(t, c)
  PROVE  /\ Next /\ OthersStay(t)
         /\ authz'[t].state = "settled"
         /\ run' = run /\ usage'[t].status = "completed"
<1>1. Next
  BY DEF Next
<1> QED
  BY <1>1 DEF settleTerminal, Settled, UsageTruth, KernelTypes, OthersStay, Authorization, Usage

LEMMA PartialEffect ==
  ASSUME KernelTypes, NEW t \in Turns, settlePartialOutputAuthorization(t)
  PROVE  /\ Next /\ OthersStay(t)
         /\ run[t] = "output" /\ run' = run
         /\ IsReserved(t) /\ authz'[t].state = "settled"
         /\ usage'[t].status = "error"
<1>1. Next
  BY DEF Next
<1> QED
  BY <1>1 DEF settlePartialOutputAuthorization, Settled, UsageTruth, KernelTypes,
              OthersStay, Authorization, Usage

LEMMA WaitEffect ==
  ASSUME NEW t \in Turns, NEW s \in Refunded, beginReversal(t, s) \/ endReversal(t, s)
  PROVE  Next /\ RowsStay
<1>1. Next
  BY DEF Next
<1> QED
  BY <1>1 DEF beginReversal, endReversal, RowsStay

LEMMA ReverseEffect ==
  ASSUME KernelTypes, NEW t \in Turns, NEW s \in Refunded, reverseTurnAuthorization(t, s)
  PROVE  /\ Next /\ OthersStay(t)
         /\ IsReserved(t) /\ authz'[t].state = s
         /\ run' = run /\ usage' = usage
<1>1. Next
  BY DEF Next
<1> QED
  BY <1>1 DEF reverseTurnAuthorization, KernelTypes, OthersStay, Authorization

LEMMA RecordEffect ==
  ASSUME KernelTypes, NEW t \in Turns, NEW n \in {0, Max[t]}, recordUsageEvent(t, n)
  PROVE  /\ Next /\ OthersStay(t)
         /\ authz' = authz /\ run' = run
         /\ usage'[t] = [status |-> "error", manna |-> n]
         /\ ~UsageIsTerminal(t)
<1>1. Next
  BY DEF Next
<1> QED
  BY <1>1 DEF recordUsageEvent, KernelTypes, OthersStay, UsageIsTerminal

-----------------------------------------------------------------------------
(* The steps of a turn's process.                                          *)

\* What a step of t's process has to establish.
TurnOutcome(t) ==
  /\ [Next]_vars /\ OthersStay(t)
  /\ faults' \in Nat
  /\ me' \in [Turns -> TurnProcess] /\ \A u \in Turns \ {t} : me'[u] = me[u]
  /\ me'[t].delivered => me[t].delivered \/ run'[t] = "output" \/ authz'[t].state = "settled"
  /\ faults' = 0 => faults = 0 /\ Calm(t)'

\* A turn and its process as a step finds them.
TurnFound(t) ==
  /\ KernelTypes /\ faults \in Nat /\ me \in [Turns -> TurnProcess]
  /\ me[t] \in TurnProcess
  /\ authz[t].state \in {"none", "reserved"} \cup Terminal
  /\ run[t] \in {"none", "started", "output"}
  /\ usage[t].status \in {"none", "provider_admitted", "completed", "error"}
  /\ faults = 0 => Calm(t)
  /\ authz[t].state = "settled" => UsageIsTerminal(t)

LEMMA TurnFacts ==
  ASSUME ChatInv, NEW t \in Turns
  PROVE  TurnFound(t)
<1>1. KernelTypes /\ SettledUsageExact
  BY KernelTyped DEF ChatInv, IInv
<1> QED
  BY <1>1 DEF ChatInv, ChatTypeOK, KernelTypes, Authorization, Usage, SettledUsageExact,
              UsageIsTerminal, TurnFound

\* A step of t's process: the others stay where they are.
Moved(t) == me' \in [Turns -> TurnProcess] /\ \A u \in Turns \ {t} : me'[u] = me[u]

\* What the process knows stays.
Remembers(t) ==
  /\ me'[t].marked = me[t].marked /\ me'[t].recorded = me[t].recorded
  /\ me'[t].pending = me[t].pending /\ me'[t].delivered = me[t].delivered

LEMMA GotoMoves ==
  ASSUME me \in [Turns -> TurnProcess], NEW t \in Turns, NEW pc \in ChatPlaces, Goto(t, pc)
  PROVE  /\ Moved(t) /\ Remembers(t) /\ me'[t].pc = pc /\ me'[t].terminal = me[t].terminal
         /\ me'[t].back = me[t].back /\ me'[t].refunded = me[t].refunded
BY DEF Goto, Moved, Remembers, TurnProcess

LEMMA CallMoves ==
  ASSUME me \in [Turns -> TurnProcess], NEW t \in Turns,
         NEW b \in {"throw", "internal", "report"}, ReverseTurn(t, b)
  PROVE  /\ Moved(t) /\ Remembers(t) /\ me'[t].pc = IF me[t].marked THEN "partial" ELSE "reverse"
         /\ me'[t].back = b /\ me'[t].terminal /\ me'[t].refunded = me[t].refunded
<1> DEFINE pc == IF me[t].marked THEN "partial" ELSE "reverse"
<1>1. me' = [me EXCEPT ![t].pc = pc, ![t].back = b, ![t].terminal = TRUE]
  BY DEF ReverseTurn
<1>2. pc \in ChatPlaces
  BY DEF ChatPlaces
<1> HIDE DEF pc
<1>3. me' \in [Turns -> TurnProcess]
  <2>1. me[t] \in TurnProcess /\ b \in Callers
    BY DEF Callers
  <2>2. me' = [me EXCEPT ![t] = [me[t] EXCEPT !.pc = pc, !.back = b, !.terminal = TRUE]]
    BY <1>1
  <2>3. [me[t] EXCEPT !.pc = pc, !.back = b, !.terminal = TRUE] \in TurnProcess
    BY <1>2, <2>1 DEF TurnProcess
  <2> QED
    BY <2>2, <2>3
<1>4. \A u \in Turns \ {t} : me'[u] = me[u]
  BY <1>1
<1>5. /\ me'[t].pc = pc /\ me'[t].back = b /\ me'[t].terminal
  BY <1>1 DEF TurnProcess
<1>6. me'[t].refunded = me[t].refunded /\ Remembers(t)
  BY <1>1 DEF TurnProcess, Remembers
<1> QED
  BY <1>3, <1>4, <1>5, <1>6 DEF Moved, pc

LEMMA ReturnMoves ==
  ASSUME me \in [Turns -> TurnProcess], NEW t \in Turns,
         NEW f \in BOOLEAN, ReturnFromReverse(t, f)
  PROVE  /\ Moved(t) /\ Remembers(t)
         /\ me'[t].pc = IF me[t].back = "throw" THEN "done" ELSE "usage"
         /\ me'[t].refunded = f /\ me'[t].terminal = me[t].terminal /\ me'[t].back = me[t].back
<1> DEFINE pc == IF me[t].back = "throw" THEN "done" ELSE "usage"
<1>1. me[t] \in TurnProcess
  OBVIOUS
<1>2. me' = [me EXCEPT ![t] = [me[t] EXCEPT !.pc = pc, !.refunded = f]]
  BY DEF ReturnFromReverse
<1>3. [me[t] EXCEPT !.pc = pc, !.refunded = f] \in TurnProcess
  BY <1>1 DEF TurnProcess, ChatPlaces
<1>4. Moved(t)
  BY <1>2, <1>3 DEF Moved
<1> QED
  BY <1>2, <1>4 DEF TurnProcess, Remembers

\* The flags that a mark, a settlement, a partial settlement and an error row set.
Emits(t) == me' = [me EXCEPT ![t].marked = TRUE, ![t].delivered = TRUE]
Tells(t) ==
  me' = [me EXCEPT ![t].terminal = TRUE, ![t].recorded = TRUE, ![t].delivered = TRUE]
Settles(t) == me' = [me EXCEPT ![t].pc = "usage", ![t].refunded = TRUE, ![t].recorded = TRUE]
Unsettled(t, pc, pends) ==
  me' = [me EXCEPT ![t].pc = pc, ![t].refunded = FALSE, ![t].pending = @ \/ pends]
Records(t, pc) == me' = [me EXCEPT ![t].pc = pc, ![t].recorded = @ \/ ~me[t].pending]

LEMMA EmitMoves ==
  ASSUME me \in [Turns -> TurnProcess], NEW t \in Turns,
         Emits(t)
  PROVE  /\ Moved(t) /\ me'[t].pc = me[t].pc /\ me'[t].marked /\ me'[t].terminal = me[t].terminal
         /\ me'[t].recorded = me[t].recorded /\ me'[t].pending = me[t].pending
         /\ me'[t].back = me[t].back
<1>1. me[t] \in TurnProcess
  OBVIOUS
<1>2. me' = [me EXCEPT ![t] = [me[t] EXCEPT !.marked = TRUE, !.delivered = TRUE]]
  BY DEF Emits
<1>3. [me[t] EXCEPT !.marked = TRUE, !.delivered = TRUE] \in TurnProcess
  BY <1>1 DEF TurnProcess, ChatPlaces
<1>4. Moved(t)
  BY <1>2, <1>3 DEF Moved
<1> QED
  BY <1>2, <1>4 DEF TurnProcess, Remembers

LEMMA ToldMoves ==
  ASSUME me \in [Turns -> TurnProcess], NEW t \in Turns,
         Tells(t)
  PROVE  /\ Moved(t) /\ me'[t].pc = me[t].pc /\ me'[t].marked = me[t].marked /\ me'[t].terminal
         /\ me'[t].pending = me[t].pending /\ me'[t].back = me[t].back
<1>1. me[t] \in TurnProcess
  OBVIOUS
<1>2. me' = [me EXCEPT ![t] = [me[t] EXCEPT !.terminal = TRUE, !.recorded = TRUE, !.delivered = TRUE]]
  BY DEF Tells
<1>3. [me[t] EXCEPT !.terminal = TRUE, !.recorded = TRUE, !.delivered = TRUE] \in TurnProcess
  BY <1>1 DEF TurnProcess, ChatPlaces
<1>4. Moved(t)
  BY <1>2, <1>3 DEF Moved
<1> QED
  BY <1>2, <1>4 DEF TurnProcess, Remembers

LEMMA RecordMoves ==
  ASSUME me \in [Turns -> TurnProcess], NEW t \in Turns,
         NEW pc \in ChatPlaces,
         Records(t, pc)
  PROVE  /\ Moved(t) /\ me'[t].pc = pc /\ me'[t].marked = me[t].marked
         /\ me'[t].pending = me[t].pending /\ me'[t].delivered = me[t].delivered
<1>1. me[t] \in TurnProcess
  OBVIOUS
<1>2. me' = [me EXCEPT ![t] = [me[t] EXCEPT !.pc = pc, !.recorded = @ \/ ~me[t].pending]]
  BY DEF Records
<1>3. [me[t] EXCEPT !.pc = pc, !.recorded = @ \/ ~me[t].pending] \in TurnProcess
  BY <1>1 DEF TurnProcess, ChatPlaces
<1>4. Moved(t)
  BY <1>2, <1>3 DEF Moved
<1> QED
  BY <1>2, <1>4 DEF TurnProcess, Remembers

LEMMA SettledMoves ==
  ASSUME me \in [Turns -> TurnProcess], NEW t \in Turns,
         Settles(t)
  PROVE  /\ Moved(t) /\ me'[t].pc = "usage" /\ me'[t].marked = me[t].marked
         /\ me'[t].pending = me[t].pending /\ me'[t].delivered = me[t].delivered
         /\ me'[t].refunded /\ me'[t].back = me[t].back
<1>1. me[t] \in TurnProcess
  OBVIOUS
<1>2. me' = [me EXCEPT ![t] = [me[t] EXCEPT !.pc = "usage", !.refunded = TRUE, !.recorded = TRUE]]
  BY DEF Settles
<1>3. [me[t] EXCEPT !.pc = "usage", !.refunded = TRUE, !.recorded = TRUE] \in TurnProcess
  BY <1>1 DEF TurnProcess, ChatPlaces
<1>4. Moved(t)
  BY <1>2, <1>3 DEF Moved
<1> QED
  BY <1>2, <1>4 DEF TurnProcess, Remembers

LEMMA UnsettledMoves ==
  ASSUME me \in [Turns -> TurnProcess], NEW t \in Turns,
         NEW pc \in ChatPlaces, NEW pends \in BOOLEAN,
         Unsettled(t, pc, pends)
  PROVE  /\ Moved(t) /\ me'[t].pc = pc /\ me'[t].marked = me[t].marked
         /\ me'[t].pending = (me[t].pending \/ pends) /\ me'[t].delivered = me[t].delivered
         /\ me'[t].recorded = me[t].recorded /\ me'[t].back = me[t].back
<1>1. me[t] \in TurnProcess
  OBVIOUS
<1>2. me' = [me EXCEPT ![t] = [me[t] EXCEPT !.pc = pc, !.refunded = FALSE, !.pending = @ \/ pends]]
  BY DEF Unsettled
<1>3. [me[t] EXCEPT !.pc = pc, !.refunded = FALSE, !.pending = @ \/ pends] \in TurnProcess
  BY <1>1 DEF TurnProcess, ChatPlaces
<1>4. Moved(t)
  BY <1>2, <1>3 DEF Moved
<1> QED
  BY <1>2, <1>4 DEF TurnProcess, Remembers

\* No kernel row changes: the rows of every turn stay.
LEMMA NoKernelStep ==
  ASSUME UNCHANGED kernel, NEW t \in Turns
  PROVE  [Next]_vars /\ RowsStay /\ OthersStay(t)
BY DEF kernel, vars, RowsStay, OthersStay

\* A step of a process that keeps to the kernel's transactions, with or without
\* a failure.
LEMMA Outcome ==
  ASSUME NEW t \in Turns, TurnFound(t), [Next]_vars, OthersStay(t), Moved(t),
         faults' = faults \/ faults' = faults + 1,
         me'[t].delivered => me[t].delivered \/ run'[t] = "output" \/ authz'[t].state = "settled",
         faults' = faults /\ faults = 0 => Calm(t)'
  PROVE  TurnOutcome(t)
BY DEF TurnOutcome, TurnFound, Moved

LEMMA ReserveCalm ==
  ASSUME ChatInv, NEW t \in Turns, ReserveTurn(t)
  PROVE  TurnOutcome(t)
<1>f. TurnFound(t)
  BY TurnFacts
<1>1. \/ reserveAuthorization(t) /\ Goto(t, "claim") /\ faults' = faults
      \/ reserveAuthorization(t) /\ Goto(t, "done") /\ faults' = faults + 1
      \/ UNCHANGED kernel /\ Goto(t, "done") /\ faults' = faults + 1
      \/ UNCHANGED kernel /\ Goto(t, "done") /\ faults' = faults
  BY DEF ReserveTurn, Call, Attempt, Fault, NoWrite
<1>2. me[t].pc = "idle"
  BY DEF ReserveTurn, At
<1>3. CASE reserveAuthorization(t) /\ Goto(t, "claim") /\ faults' = faults
  <2>1. Next /\ OthersStay(t) /\ authz'[t].state = "reserved"
        /\ run'[t] = run[t] /\ usage'[t] = usage[t]
    BY <1>3, <1>f, ReserveEffect DEF TurnFound
  <2>2. Moved(t) /\ Remembers(t) /\ me'[t].pc = "claim" /\ me'[t].terminal = me[t].terminal
        /\ me'[t].back = me[t].back
    BY <1>3, <1>f, GotoMoves DEF TurnFound, ChatPlaces
  <2>3. faults = 0 => Calm(t)'
    BY <1>2, <1>3, <1>f, <2>1, <2>2
       DEF Remembers, TurnFound, Calm, CalmRows, CalmProcess, UsageIsTerminal, Rested, Terminal, IsReserved
  <2> QED
    BY <1>3, <1>f, <2>1, <2>2, <2>3, Outcome DEF Remembers
<1>4. CASE reserveAuthorization(t) /\ Goto(t, "done") /\ faults' = faults + 1
  <2>1. Next /\ OthersStay(t) /\ authz'[t].state = "reserved"
        /\ run'[t] = run[t] /\ usage'[t] = usage[t]
    BY <1>4, <1>f, ReserveEffect DEF TurnFound
  <2>2. Moved(t) /\ Remembers(t) /\ me'[t].pc = "done" /\ me'[t].terminal = me[t].terminal
        /\ me'[t].back = me[t].back
    BY <1>4, <1>f, GotoMoves DEF TurnFound, ChatPlaces
  <2> QED
    BY <1>4, <1>f, <2>1, <2>2, Outcome DEF TurnFound, Remembers
<1>5. CASE UNCHANGED kernel /\ Goto(t, "done") /\ faults' = faults + 1
  <2>1. [Next]_vars /\ OthersStay(t) /\ RowsStay
    BY <1>5, NoKernelStep
  <2>2. Moved(t) /\ Remembers(t) /\ me'[t].pc = "done" /\ me'[t].terminal = me[t].terminal
        /\ me'[t].back = me[t].back
    BY <1>5, <1>f, GotoMoves DEF TurnFound, ChatPlaces
  <2> QED
    BY <1>5, <1>f, <2>1, <2>2, Outcome DEF TurnFound, Remembers
<1>6. CASE UNCHANGED kernel /\ Goto(t, "done") /\ faults' = faults
  <2>1. [Next]_vars /\ OthersStay(t) /\ RowsStay
    BY <1>6, NoKernelStep
  <2>2. Moved(t) /\ Remembers(t) /\ me'[t].pc = "done" /\ me'[t].terminal = me[t].terminal
        /\ me'[t].back = me[t].back
    BY <1>6, <1>f, GotoMoves DEF TurnFound, ChatPlaces
  <2>3. faults = 0 => Calm(t)'
    BY <1>2, <1>6, <1>f, <2>1, <2>2
       DEF RowsStay, Remembers, TurnFound, Calm, CalmRows, CalmProcess, UsageIsTerminal, Rested, Terminal, IsReserved
  <2> QED
    BY <1>6, <1>f, <2>1, <2>2, <2>3, Outcome DEF Remembers
<1> QED
  BY <1>1, <1>3, <1>4, <1>5, <1>6

LEMMA ClaimCalm ==
  ASSUME ChatInv, NEW t \in Turns, ClaimTicket(t)
  PROVE  TurnOutcome(t)
<1>f. TurnFound(t)
  BY TurnFacts
<1>1. \/ claimTurnProviderStart(t) /\ Goto(t, "prepare") /\ faults' = faults
      \/ claimTurnProviderStart(t) /\ ReverseTurn(t, "throw") /\ faults' = faults + 1
      \/ UNCHANGED kernel /\ ReverseTurn(t, "throw") /\ faults' = faults + 1
      \/ UNCHANGED kernel /\ Goto(t, "done") /\ faults' = faults
  BY DEF ClaimTicket, Call, Attempt, Fault, NoWrite
<1>2. me[t].pc = "claim"
  BY DEF ClaimTicket, At
<1>3. CASE claimTurnProviderStart(t) /\ Goto(t, "prepare") /\ faults' = faults
  <2>1. Next /\ OthersStay(t) /\ IsReserved(t) /\ authz' = authz
        /\ run'[t] = "started" /\ usage'[t].status = "provider_admitted"
    BY <1>3, <1>f, ClaimEffect DEF TurnFound
  <2>2. Moved(t) /\ Remembers(t) /\ me'[t].pc = "prepare" /\ me'[t].terminal = me[t].terminal
        /\ me'[t].back = me[t].back
    BY <1>3, <1>f, GotoMoves DEF TurnFound, ChatPlaces
  <2>3. faults = 0 => Calm(t)'
    BY <1>2, <1>3, <1>f, <2>1, <2>2
       DEF Remembers, TurnFound, Calm, CalmRows, CalmProcess, UsageIsTerminal, Rested, Terminal, IsReserved
  <2> QED
    BY <1>3, <1>f, <2>1, <2>2, <2>3, Outcome DEF Remembers
<1>4. CASE claimTurnProviderStart(t) /\ ReverseTurn(t, "throw") /\ faults' = faults + 1
  <2>1. Next /\ OthersStay(t) /\ IsReserved(t) /\ authz' = authz
        /\ run'[t] = "started" /\ usage'[t].status = "provider_admitted"
    BY <1>4, <1>f, ClaimEffect DEF TurnFound
  <2>2. Moved(t) /\ Remembers(t) /\ me'[t].back = "throw" /\ me'[t].terminal
        /\ me'[t].pc = IF me[t].marked THEN "partial" ELSE "reverse"
    BY <1>4, <1>f, CallMoves DEF TurnFound
  <2> QED
    BY <1>4, <1>f, <2>1, <2>2, Outcome DEF TurnFound, Remembers
<1>5. CASE UNCHANGED kernel /\ ReverseTurn(t, "throw") /\ faults' = faults + 1
  <2>1. [Next]_vars /\ OthersStay(t) /\ RowsStay
    BY <1>5, NoKernelStep
  <2>2. Moved(t) /\ Remembers(t) /\ me'[t].back = "throw" /\ me'[t].terminal
        /\ me'[t].pc = IF me[t].marked THEN "partial" ELSE "reverse"
    BY <1>5, <1>f, CallMoves DEF TurnFound
  <2> QED
    BY <1>5, <1>f, <2>1, <2>2, Outcome DEF TurnFound, Remembers
<1>6. CASE UNCHANGED kernel /\ Goto(t, "done") /\ faults' = faults
  <2>1. [Next]_vars /\ OthersStay(t) /\ RowsStay
    BY <1>6, NoKernelStep
  <2>2. Moved(t) /\ Remembers(t) /\ me'[t].pc = "done" /\ me'[t].terminal = me[t].terminal
        /\ me'[t].back = me[t].back
    BY <1>6, <1>f, GotoMoves DEF TurnFound, ChatPlaces
  <2>3. faults = 0 => Calm(t)'
    BY <1>2, <1>6, <1>f, <2>1, <2>2
       DEF RowsStay, Remembers, TurnFound, Calm, CalmRows, CalmProcess, UsageIsTerminal, Rested, Terminal, IsReserved
  <2> QED
    BY <1>6, <1>f, <2>1, <2>2, <2>3, Outcome DEF Remembers
<1> QED
  BY <1>1, <1>3, <1>4, <1>5, <1>6

LEMMA PrepareCalm ==
  ASSUME ChatInv, NEW t \in Turns, Prepare(t)
  PROVE  TurnOutcome(t)
<1>f. TurnFound(t)
  BY TurnFacts
<1>1. \/ UNCHANGED kernel /\ Goto(t, "stream") /\ faults' = faults
      \/ UNCHANGED kernel /\ ReverseTurn(t, "throw") /\ faults' = faults + 1
  BY DEF Prepare, Call, Attempt, Fault, NoWrite
<1>2. me[t].pc = "prepare"
  BY DEF Prepare, At
<1>3. CASE UNCHANGED kernel /\ Goto(t, "stream") /\ faults' = faults
  <2>1. [Next]_vars /\ OthersStay(t) /\ RowsStay
    BY <1>3, NoKernelStep
  <2>2. Moved(t) /\ Remembers(t) /\ me'[t].pc = "stream" /\ me'[t].terminal = me[t].terminal
        /\ me'[t].back = me[t].back
    BY <1>3, <1>f, GotoMoves DEF TurnFound, ChatPlaces
  <2>3. faults = 0 => Calm(t)'
    BY <1>2, <1>3, <1>f, <2>1, <2>2
       DEF RowsStay, Remembers, TurnFound, Calm, CalmRows, CalmProcess, UsageIsTerminal, Rested, Terminal, IsReserved
  <2> QED
    BY <1>3, <1>f, <2>1, <2>2, <2>3, Outcome DEF Remembers
<1>4. CASE UNCHANGED kernel /\ ReverseTurn(t, "throw") /\ faults' = faults + 1
  <2>1. [Next]_vars /\ OthersStay(t) /\ RowsStay
    BY <1>4, NoKernelStep
  <2>2. Moved(t) /\ Remembers(t) /\ me'[t].back = "throw" /\ me'[t].terminal
        /\ me'[t].pc = IF me[t].marked THEN "partial" ELSE "reverse"
    BY <1>4, <1>f, CallMoves DEF TurnFound
  <2> QED
    BY <1>4, <1>f, <2>1, <2>2, Outcome DEF TurnFound, Remembers
<1> QED
  BY <1>1, <1>3, <1>4

LEMMA FirstTokenCalm ==
  ASSUME ChatInv, NEW t \in Turns, FirstToken(t)
  PROVE  TurnOutcome(t)
<1>f. TurnFound(t)
  BY TurnFacts
<1>1. \/ markTurnUsableOutput(t) /\ Emits(t) /\ faults' = faults
      \/ markTurnUsableOutput(t) /\ ReverseTurn(t, "internal") /\ faults' = faults + 1
      \/ UNCHANGED kernel /\ ReverseTurn(t, "internal") /\ faults' = faults + 1
      \/ ~IsReserved(t) /\ UNCHANGED kernel /\ ReverseTurn(t, "internal") /\ faults' = faults
  BY DEF FirstToken, Emits, Call, Attempt, Fault, NoWrite
<1>2. me[t].pc = "stream" /\ ~me[t].terminal /\ ~me[t].marked
  BY DEF FirstToken, Streaming, At
<1>3. CASE markTurnUsableOutput(t) /\ Emits(t) /\ faults' = faults
  <2>1. Next /\ OthersStay(t) /\ authz' = authz /\ usage' = usage
        /\ run[t] = "started" /\ run'[t] = "output"
    BY <1>3, <1>f, MarkEffect DEF TurnFound
  <2>2. Moved(t) /\ me'[t].pc = me[t].pc /\ me'[t].marked /\ me'[t].terminal = me[t].terminal
        /\ me'[t].recorded = me[t].recorded /\ me'[t].pending = me[t].pending
    BY <1>3, <1>f, EmitMoves DEF TurnFound
  <2>3. faults = 0 => Calm(t)'
    BY <1>2, <1>3, <1>f, <2>1, <2>2
       DEF Remembers, TurnFound, Calm, CalmRows, CalmProcess, UsageIsTerminal, Rested, Terminal, IsReserved
  <2> QED
    BY <1>3, <1>f, <2>1, <2>2, <2>3, Outcome DEF Remembers
<1>4. CASE markTurnUsableOutput(t) /\ ReverseTurn(t, "internal") /\ faults' = faults + 1
  <2>1. Next /\ OthersStay(t) /\ authz' = authz /\ usage' = usage
        /\ run[t] = "started" /\ run'[t] = "output"
    BY <1>4, <1>f, MarkEffect DEF TurnFound
  <2>2. Moved(t) /\ Remembers(t) /\ me'[t].back = "internal" /\ me'[t].terminal
        /\ me'[t].pc = IF me[t].marked THEN "partial" ELSE "reverse"
    BY <1>4, <1>f, CallMoves DEF TurnFound
  <2> QED
    BY <1>4, <1>f, <2>1, <2>2, Outcome DEF TurnFound, Remembers
<1>5. CASE UNCHANGED kernel /\ ReverseTurn(t, "internal") /\ faults' = faults + 1
  <2>1. [Next]_vars /\ OthersStay(t) /\ RowsStay
    BY <1>5, NoKernelStep
  <2>2. Moved(t) /\ Remembers(t) /\ me'[t].back = "internal" /\ me'[t].terminal
        /\ me'[t].pc = IF me[t].marked THEN "partial" ELSE "reverse"
    BY <1>5, <1>f, CallMoves DEF TurnFound
  <2> QED
    BY <1>5, <1>f, <2>1, <2>2, Outcome DEF TurnFound, Remembers
<1>6. CASE ~IsReserved(t) /\ UNCHANGED kernel /\ ReverseTurn(t, "internal") /\ faults' = faults
  <2>1. [Next]_vars /\ OthersStay(t) /\ RowsStay
    BY <1>6, NoKernelStep
  <2>2. Moved(t) /\ Remembers(t) /\ me'[t].back = "internal" /\ me'[t].terminal
        /\ me'[t].pc = IF me[t].marked THEN "partial" ELSE "reverse"
    BY <1>6, <1>f, CallMoves DEF TurnFound
  <2>3. faults = 0 => Calm(t)'
    BY <1>2, <1>6, <1>f, <2>1, <2>2
       DEF RowsStay, Remembers, TurnFound, Calm, CalmRows, CalmProcess, UsageIsTerminal, Rested, Terminal, IsReserved
  <2> QED
    BY <1>6, <1>f, <2>1, <2>2, <2>3, Outcome DEF Remembers
<1> QED
  BY <1>1, <1>3, <1>4, <1>5, <1>6

LEMMA CompletedCalm ==
  ASSUME ChatInv, NEW t \in Turns, NEW c \in Amounts \cup {0}, TurnCompleted(t, c)
  PROVE  TurnOutcome(t)
<1>f. TurnFound(t)
  BY TurnFacts
<1>1. \/ settleTerminal(t, c) /\ Tells(t) /\ faults' = faults
      \/ settleTerminal(t, c) /\ ReverseTurn(t, "report") /\ faults' = faults + 1
      \/ UNCHANGED kernel /\ ReverseTurn(t, "report") /\ faults' = faults + 1
      \/ ~IsReserved(t) /\ UNCHANGED kernel /\ ReverseTurn(t, "report") /\ faults' = faults
  BY DEF TurnCompleted, Tells, Call, Attempt, Fault, NoWrite
<1>2. me[t].pc = "stream" /\ ~me[t].terminal
  BY DEF TurnCompleted, Streaming, At
<1>3. CASE settleTerminal(t, c) /\ Tells(t) /\ faults' = faults
  <2>1. Next /\ OthersStay(t) /\ authz'[t].state = "settled"
        /\ run' = run /\ usage'[t].status = "completed"
    BY <1>3, <1>f, SettleEffect DEF TurnFound, Refunded
  <2>2. Moved(t) /\ me'[t].pc = me[t].pc /\ me'[t].marked = me[t].marked /\ me'[t].terminal
        /\ me'[t].pending = me[t].pending
    BY <1>3, <1>f, ToldMoves DEF TurnFound
  <2>3. faults = 0 => Calm(t)'
    BY <1>2, <1>3, <1>f, <2>1, <2>2
       DEF Refunded, Remembers, TurnFound, Calm, CalmRows, CalmProcess, UsageIsTerminal, Rested, Terminal, IsReserved
  <2> QED
    BY <1>3, <1>f, <2>1, <2>2, <2>3, Outcome DEF Remembers
<1>4. CASE settleTerminal(t, c) /\ ReverseTurn(t, "report") /\ faults' = faults + 1
  <2>1. Next /\ OthersStay(t) /\ authz'[t].state = "settled"
        /\ run' = run /\ usage'[t].status = "completed"
    BY <1>4, <1>f, SettleEffect DEF TurnFound, Refunded
  <2>2. Moved(t) /\ Remembers(t) /\ me'[t].back = "report" /\ me'[t].terminal
        /\ me'[t].pc = IF me[t].marked THEN "partial" ELSE "reverse"
    BY <1>4, <1>f, CallMoves DEF TurnFound
  <2> QED
    BY <1>4, <1>f, <2>1, <2>2, Outcome DEF TurnFound, Remembers
<1>5. CASE UNCHANGED kernel /\ ReverseTurn(t, "report") /\ faults' = faults + 1
  <2>1. [Next]_vars /\ OthersStay(t) /\ RowsStay
    BY <1>5, NoKernelStep
  <2>2. Moved(t) /\ Remembers(t) /\ me'[t].back = "report" /\ me'[t].terminal
        /\ me'[t].pc = IF me[t].marked THEN "partial" ELSE "reverse"
    BY <1>5, <1>f, CallMoves DEF TurnFound
  <2> QED
    BY <1>5, <1>f, <2>1, <2>2, Outcome DEF TurnFound, Remembers
<1>6. CASE ~IsReserved(t) /\ UNCHANGED kernel /\ ReverseTurn(t, "report") /\ faults' = faults
  <2>1. [Next]_vars /\ OthersStay(t) /\ RowsStay
    BY <1>6, NoKernelStep
  <2>2. Moved(t) /\ Remembers(t) /\ me'[t].back = "report" /\ me'[t].terminal
        /\ me'[t].pc = IF me[t].marked THEN "partial" ELSE "reverse"
    BY <1>6, <1>f, CallMoves DEF TurnFound
  <2>3. faults = 0 => Calm(t)'
    BY <1>2, <1>6, <1>f, <2>1, <2>2
       DEF RowsStay, Remembers, TurnFound, Calm, CalmRows, CalmProcess, UsageIsTerminal, Rested, Terminal, IsReserved
  <2> QED
    BY <1>6, <1>f, <2>1, <2>2, <2>3, Outcome DEF Remembers
<1> QED
  BY <1>1, <1>3, <1>4, <1>5, <1>6

\* An error event, an exception of the gateway client, the end of the stream.
LEMMA StreamCalm ==
  ASSUME ChatInv, NEW t \in Turns, TurnFailed(t) \/ StreamThrows(t) \/ StreamEnds(t)
  PROVE  TurnOutcome(t)
<1>f. TurnFound(t)
  BY TurnFacts
<1>1. \/ UNCHANGED kernel /\ ReverseTurn(t, "report") /\ faults' = faults
      \/ UNCHANGED kernel /\ ReverseTurn(t, "internal") /\ faults' = faults
      \/ me[t].terminal /\ UNCHANGED kernel /\ Goto(t, "done") /\ faults' = faults
  BY DEF TurnFailed, StreamThrows, StreamEnds, NoWrite
<1>2. me[t].pc = "stream"
  BY DEF TurnFailed, StreamThrows, StreamEnds, Streaming, At
<1>3. CASE UNCHANGED kernel /\ ReverseTurn(t, "report") /\ faults' = faults
  <2>1. [Next]_vars /\ OthersStay(t) /\ RowsStay
    BY <1>3, NoKernelStep
  <2>2. Moved(t) /\ Remembers(t) /\ me'[t].back = "report" /\ me'[t].terminal
        /\ me'[t].pc = IF me[t].marked THEN "partial" ELSE "reverse"
    BY <1>3, <1>f, CallMoves DEF TurnFound
  <2>3. faults = 0 => Calm(t)'
    BY <1>2, <1>3, <1>f, <2>1, <2>2
       DEF RowsStay, Remembers, TurnFound, Calm, CalmRows, CalmProcess, UsageIsTerminal, Rested, Terminal, IsReserved
  <2> QED
    BY <1>3, <1>f, <2>1, <2>2, <2>3, Outcome DEF Remembers
<1>4. CASE UNCHANGED kernel /\ ReverseTurn(t, "internal") /\ faults' = faults
  <2>1. [Next]_vars /\ OthersStay(t) /\ RowsStay
    BY <1>4, NoKernelStep
  <2>2. Moved(t) /\ Remembers(t) /\ me'[t].back = "internal" /\ me'[t].terminal
        /\ me'[t].pc = IF me[t].marked THEN "partial" ELSE "reverse"
    BY <1>4, <1>f, CallMoves DEF TurnFound
  <2>3. faults = 0 => Calm(t)'
    BY <1>2, <1>4, <1>f, <2>1, <2>2
       DEF RowsStay, Remembers, TurnFound, Calm, CalmRows, CalmProcess, UsageIsTerminal, Rested, Terminal, IsReserved
  <2> QED
    BY <1>4, <1>f, <2>1, <2>2, <2>3, Outcome DEF Remembers
<1>5. CASE me[t].terminal /\ UNCHANGED kernel /\ Goto(t, "done") /\ faults' = faults
  <2>1. [Next]_vars /\ OthersStay(t) /\ RowsStay
    BY <1>5, NoKernelStep
  <2>2. Moved(t) /\ Remembers(t) /\ me'[t].pc = "done" /\ me'[t].terminal = me[t].terminal
        /\ me'[t].back = me[t].back
    BY <1>5, <1>f, GotoMoves DEF TurnFound, ChatPlaces
  <2>3. faults = 0 => Calm(t)'
    BY <1>2, <1>5, <1>f, <2>1, <2>2
       DEF RowsStay, Remembers, TurnFound, Calm, CalmRows, CalmProcess, UsageIsTerminal, Rested, Terminal, IsReserved
  <2> QED
    BY <1>5, <1>f, <2>1, <2>2, <2>3, Outcome DEF Remembers
<1> QED
  BY <1>1, <1>3, <1>4, <1>5

LEMMA PartialCalm ==
  ASSUME ChatInv, NEW t \in Turns, SettlePartial(t)
  PROVE  TurnOutcome(t)
<1>f. TurnFound(t)
  BY TurnFacts
<1> DEFINE after == IF me[t].pc = "partial" THEN "reverse" ELSE "usage"
<1>a. after \in ChatPlaces /\ (me[t].pc = "partial" => after = "reverse")
  BY DEF ChatPlaces
<1>1. \/ settlePartialOutputAuthorization(t) /\ Settles(t) /\ faults' = faults
      \/ settlePartialOutputAuthorization(t) /\ Unsettled(t, after, TRUE) /\ faults' = faults + 1
      \/ UNCHANGED kernel /\ Unsettled(t, after, TRUE) /\ faults' = faults + 1
      \/ authz[t].state = "settled" /\ UNCHANGED kernel /\ Settles(t) /\ faults' = faults
      \/ authz[t].state \in {"reversed", "reaped"} /\ UNCHANGED kernel /\ Unsettled(t, after, FALSE) /\ faults' = faults
      \/ ConflictingUsage(t) /\ UNCHANGED kernel /\ Unsettled(t, after, TRUE) /\ faults' = faults
  BY DEF SettlePartial, Settles, Unsettled, At, Call, Attempt, Fault, NoWrite
<1> HIDE DEF after
<1>2. me[t].pc \in {"partial", "repartial"}
  BY DEF SettlePartial
<1>3. CASE settlePartialOutputAuthorization(t) /\ Settles(t) /\ faults' = faults
  <2>1. Next /\ OthersStay(t) /\ authz'[t].state = "settled"
        /\ run[t] = "output" /\ run' = run /\ usage'[t].status = "error"
    BY <1>3, <1>f, PartialEffect DEF TurnFound, Refunded
  <2>2. Moved(t) /\ me'[t].pc = "usage" /\ me'[t].marked = me[t].marked /\ me'[t].back = me[t].back
        /\ me'[t].pending = me[t].pending /\ me'[t].delivered = me[t].delivered
        /\ me'[t].refunded
    BY <1>3, <1>f, SettledMoves DEF TurnFound
  <2>3. faults = 0 => Calm(t)'
    BY <1>2, <1>3, <1>f, <2>1, <2>2
       DEF Refunded, Remembers, TurnFound, Calm, CalmRows, CalmProcess, UsageIsTerminal, Rested, Terminal, IsReserved
  <2> QED
    BY <1>3, <1>f, <2>1, <2>2, <2>3, Outcome DEF Remembers
<1>4. CASE settlePartialOutputAuthorization(t) /\ Unsettled(t, after, TRUE) /\ faults' = faults + 1
  <2>1. Next /\ OthersStay(t) /\ authz'[t].state = "settled"
        /\ run[t] = "output" /\ run' = run /\ usage'[t].status = "error"
    BY <1>4, <1>f, PartialEffect DEF TurnFound, Refunded
  <2>2. Moved(t) /\ me'[t].pc = after /\ me'[t].marked = me[t].marked
        /\ me'[t].pending = (me[t].pending \/ TRUE) /\ me'[t].delivered = me[t].delivered
        /\ me'[t].recorded = me[t].recorded /\ me'[t].back = me[t].back
    BY <1>4, <1>f, <1>a, UnsettledMoves DEF TurnFound
  <2> QED
    BY <1>4, <1>f, <2>1, <2>2, Outcome DEF TurnFound, Remembers
<1>5. CASE UNCHANGED kernel /\ Unsettled(t, after, TRUE) /\ faults' = faults + 1
  <2>1. [Next]_vars /\ OthersStay(t) /\ RowsStay
    BY <1>5, NoKernelStep
  <2>2. Moved(t) /\ me'[t].pc = after /\ me'[t].marked = me[t].marked
        /\ me'[t].pending = (me[t].pending \/ TRUE) /\ me'[t].delivered = me[t].delivered
        /\ me'[t].recorded = me[t].recorded /\ me'[t].back = me[t].back
    BY <1>5, <1>f, <1>a, UnsettledMoves DEF TurnFound
  <2> QED
    BY <1>5, <1>f, <2>1, <2>2, Outcome DEF TurnFound, Remembers
<1>6. CASE authz[t].state = "settled" /\ UNCHANGED kernel /\ Settles(t) /\ faults' = faults
  <2>1. [Next]_vars /\ OthersStay(t) /\ RowsStay
    BY <1>6, NoKernelStep
  <2>2. Moved(t) /\ me'[t].pc = "usage" /\ me'[t].marked = me[t].marked /\ me'[t].back = me[t].back
        /\ me'[t].pending = me[t].pending /\ me'[t].delivered = me[t].delivered
        /\ me'[t].refunded
    BY <1>6, <1>f, SettledMoves DEF TurnFound
  <2>3. faults = 0 => Calm(t)'
    BY <1>2, <1>6, <1>f, <2>1, <2>2
       DEF RowsStay, Remembers, TurnFound, Calm, CalmRows, CalmProcess, UsageIsTerminal, Rested, Terminal, IsReserved
  <2> QED
    BY <1>6, <1>f, <2>1, <2>2, <2>3, Outcome DEF Remembers
<1>7. CASE authz[t].state \in {"reversed", "reaped"} /\ UNCHANGED kernel /\ Unsettled(t, after, FALSE) /\ faults' = faults
  <2>1. [Next]_vars /\ OthersStay(t) /\ RowsStay
    BY <1>7, NoKernelStep
  <2>2. Moved(t) /\ me'[t].pc = after /\ me'[t].marked = me[t].marked
        /\ me'[t].pending = (me[t].pending \/ FALSE) /\ me'[t].delivered = me[t].delivered
        /\ me'[t].recorded = me[t].recorded /\ me'[t].back = me[t].back
    BY <1>7, <1>f, <1>a, UnsettledMoves DEF TurnFound
  <2>3. faults = 0 => Calm(t)'
    BY <1>2, <1>7, <1>a, <1>f, <2>1, <2>2
       DEF RowsStay, Refunded, Remembers, TurnFound, Calm, CalmRows, CalmProcess, UsageIsTerminal, Rested, Terminal, IsReserved
  <2> QED
    BY <1>7, <1>f, <2>1, <2>2, <2>3, Outcome DEF Remembers
<1>8. CASE ConflictingUsage(t) /\ UNCHANGED kernel /\ Unsettled(t, after, TRUE) /\ faults' = faults
  <2>1. [Next]_vars /\ OthersStay(t) /\ RowsStay
    BY <1>8, NoKernelStep
  <2>2. Moved(t) /\ me'[t].pc = after /\ me'[t].marked = me[t].marked
        /\ me'[t].pending = (me[t].pending \/ TRUE) /\ me'[t].delivered = me[t].delivered
        /\ me'[t].recorded = me[t].recorded /\ me'[t].back = me[t].back
    BY <1>8, <1>f, <1>a, UnsettledMoves DEF TurnFound
  <2>3. faults = 0 => Calm(t)'
    BY <1>2, <1>8, <1>f, <2>1, <2>2
       DEF RowsStay, ConflictingUsage, Remembers, TurnFound, Calm, CalmRows, CalmProcess, UsageIsTerminal, Rested, Terminal, IsReserved
  <2> QED
    BY <1>8, <1>f, <2>1, <2>2, <2>3, Outcome DEF Remembers
<1> QED
  BY <1>1, <1>3, <1>4, <1>5, <1>6, <1>7, <1>8

LEMMA BeginCalm ==
  ASSUME ChatInv, NEW t \in Turns, BeginReverse(t)
  PROVE  TurnOutcome(t)
<1>f. TurnFound(t)
  BY TurnFacts
<1>1. \/ beginReversal(t, "reversed") /\ Goto(t, "reverseLock") /\ faults' = faults
      \/ run[t] = "output" /\ IsReserved(t) /\ UNCHANGED kernel /\ Goto(t, "repartial") /\ faults' = faults
      \/ run[t] = "output" /\ ~IsReserved(t) /\ UNCHANGED kernel /\ ReturnFromReverse(t, TRUE) /\ faults' = faults
      \/ UNCHANGED kernel /\ ReturnFromReverse(t, FALSE) /\ faults' = faults + 1
  BY DEF BeginReverse, Fault, NoWrite
<1>2. me[t].pc = "reverse"
  BY DEF BeginReverse, At
<1>3. CASE beginReversal(t, "reversed") /\ Goto(t, "reverseLock") /\ faults' = faults
  <2>1. Next /\ OthersStay(t) /\ RowsStay /\ run[t] # "output"
    BY <1>3, WaitEffect DEF Refunded, RowsStay, OthersStay, beginReversal
  <2>2. Moved(t) /\ Remembers(t) /\ me'[t].pc = "reverseLock" /\ me'[t].terminal = me[t].terminal
        /\ me'[t].back = me[t].back
    BY <1>3, <1>f, GotoMoves DEF TurnFound, ChatPlaces
  <2>3. faults = 0 => Calm(t)'
    BY <1>2, <1>3, <1>f, <2>1, <2>2
       DEF RowsStay, Remembers, TurnFound, Calm, CalmRows, CalmProcess, UsageIsTerminal, Rested, Terminal, IsReserved
  <2> QED
    BY <1>3, <1>f, <2>1, <2>2, <2>3, Outcome DEF Remembers
<1>4. CASE run[t] = "output" /\ IsReserved(t) /\ UNCHANGED kernel /\ Goto(t, "repartial") /\ faults' = faults
  <2>1. [Next]_vars /\ OthersStay(t) /\ RowsStay
    BY <1>4, NoKernelStep
  <2>2. Moved(t) /\ Remembers(t) /\ me'[t].pc = "repartial" /\ me'[t].terminal = me[t].terminal
        /\ me'[t].back = me[t].back
    BY <1>4, <1>f, GotoMoves DEF TurnFound, ChatPlaces
  <2>3. faults = 0 => Calm(t)'
    BY <1>2, <1>4, <1>f, <2>1, <2>2
       DEF RowsStay, Remembers, TurnFound, Calm, CalmRows, CalmProcess, UsageIsTerminal, Rested, Terminal, IsReserved
  <2> QED
    BY <1>4, <1>f, <2>1, <2>2, <2>3, Outcome DEF Remembers
<1>5. CASE run[t] = "output" /\ ~IsReserved(t) /\ UNCHANGED kernel /\ ReturnFromReverse(t, TRUE) /\ faults' = faults
  <2>1. [Next]_vars /\ OthersStay(t) /\ RowsStay
    BY <1>5, NoKernelStep
  <2>2. Moved(t) /\ Remembers(t) /\ me'[t].back = me[t].back /\ me'[t].refunded = TRUE
        /\ me'[t].pc = IF me[t].back = "throw" THEN "done" ELSE "usage"
    BY <1>5, <1>f, ReturnMoves DEF TurnFound
  <2>3. faults = 0 => Calm(t)'
    BY <1>2, <1>5, <1>f, <2>1, <2>2
       DEF RowsStay, Remembers, TurnFound, Calm, CalmRows, CalmProcess, UsageIsTerminal, Rested, Terminal, IsReserved
  <2> QED
    BY <1>5, <1>f, <2>1, <2>2, <2>3, Outcome DEF Remembers
<1>6. CASE UNCHANGED kernel /\ ReturnFromReverse(t, FALSE) /\ faults' = faults + 1
  <2>1. [Next]_vars /\ OthersStay(t) /\ RowsStay
    BY <1>6, NoKernelStep
  <2>2. Moved(t) /\ Remembers(t) /\ me'[t].back = me[t].back /\ me'[t].refunded = FALSE
        /\ me'[t].pc = IF me[t].back = "throw" THEN "done" ELSE "usage"
    BY <1>6, <1>f, ReturnMoves DEF TurnFound
  <2> QED
    BY <1>6, <1>f, <2>1, <2>2, Outcome DEF TurnFound, Remembers
<1> QED
  BY <1>1, <1>3, <1>4, <1>5, <1>6

LEMMA FinishCalm ==
  ASSUME ChatInv, NEW t \in Turns, FinishReverse(t)
  PROVE  TurnOutcome(t)
<1>f. TurnFound(t)
  BY TurnFacts
<1>1. \/ reverseTurnAuthorization(t, "reversed") /\ ReturnFromReverse(t, TRUE) /\ faults' = faults
      \/ reverseTurnAuthorization(t, "reversed") /\ ReturnFromReverse(t, FALSE) /\ faults' = faults + 1
      \/ endReversal(t, "reversed") /\ ReturnFromReverse(t, FALSE) /\ faults' = faults + 1
      \/ endReversal(t, "reversed") /\ ~IsReserved(t) /\ ReturnFromReverse(t, TRUE) /\ faults' = faults
  BY DEF FinishReverse, Attempt, Fault
<1>2. me[t].pc = "reverseLock"
  BY DEF FinishReverse, At
<1>3. CASE reverseTurnAuthorization(t, "reversed") /\ ReturnFromReverse(t, TRUE) /\ faults' = faults
  <2>1. Next /\ OthersStay(t) /\ IsReserved(t) /\ authz'[t].state = "reversed"
        /\ run' = run /\ usage' = usage
    BY <1>3, <1>f, ReverseEffect DEF TurnFound, Refunded
  <2>2. Moved(t) /\ Remembers(t) /\ me'[t].back = me[t].back /\ me'[t].refunded = TRUE
        /\ me'[t].pc = IF me[t].back = "throw" THEN "done" ELSE "usage"
    BY <1>3, <1>f, ReturnMoves DEF TurnFound
  <2>3. faults = 0 => Calm(t)'
    BY <1>2, <1>3, <1>f, <2>1, <2>2
       DEF Refunded, Remembers, TurnFound, Calm, CalmRows, CalmProcess, UsageIsTerminal, Rested, Terminal, IsReserved
  <2> QED
    BY <1>3, <1>f, <2>1, <2>2, <2>3, Outcome DEF Remembers
<1>4. CASE reverseTurnAuthorization(t, "reversed") /\ ReturnFromReverse(t, FALSE) /\ faults' = faults + 1
  <2>1. Next /\ OthersStay(t) /\ IsReserved(t) /\ authz'[t].state = "reversed"
        /\ run' = run /\ usage' = usage
    BY <1>4, <1>f, ReverseEffect DEF TurnFound, Refunded
  <2>2. Moved(t) /\ Remembers(t) /\ me'[t].back = me[t].back /\ me'[t].refunded = FALSE
        /\ me'[t].pc = IF me[t].back = "throw" THEN "done" ELSE "usage"
    BY <1>4, <1>f, ReturnMoves DEF TurnFound
  <2> QED
    BY <1>4, <1>f, <2>1, <2>2, Outcome DEF TurnFound, Remembers
<1>5. CASE endReversal(t, "reversed") /\ ReturnFromReverse(t, FALSE) /\ faults' = faults + 1
  <2>1. Next /\ OthersStay(t) /\ RowsStay
    BY <1>5, WaitEffect DEF Refunded, RowsStay, OthersStay
  <2>2. Moved(t) /\ Remembers(t) /\ me'[t].back = me[t].back /\ me'[t].refunded = FALSE
        /\ me'[t].pc = IF me[t].back = "throw" THEN "done" ELSE "usage"
    BY <1>5, <1>f, ReturnMoves DEF TurnFound
  <2> QED
    BY <1>5, <1>f, <2>1, <2>2, Outcome DEF TurnFound, Remembers
<1>6. CASE endReversal(t, "reversed") /\ ~IsReserved(t) /\ ReturnFromReverse(t, TRUE) /\ faults' = faults
  <2>1. Next /\ OthersStay(t) /\ RowsStay
    BY <1>6, WaitEffect DEF Refunded, RowsStay, OthersStay
  <2>2. Moved(t) /\ Remembers(t) /\ me'[t].back = me[t].back /\ me'[t].refunded = TRUE
        /\ me'[t].pc = IF me[t].back = "throw" THEN "done" ELSE "usage"
    BY <1>6, <1>f, ReturnMoves DEF TurnFound
  <2>3. faults = 0 => Calm(t)'
    BY <1>2, <1>6, <1>f, <2>1, <2>2
       DEF RowsStay, Remembers, TurnFound, Calm, CalmRows, CalmProcess, UsageIsTerminal, Rested, Terminal, IsReserved
  <2> QED
    BY <1>6, <1>f, <2>1, <2>2, <2>3, Outcome DEF Remembers
<1> QED
  BY <1>1, <1>3, <1>4, <1>5, <1>6

LEMMA RecordCalm ==
  ASSUME ChatInv, NEW t \in Turns, RecordError(t)
  PROVE  TurnOutcome(t)
<1>f. TurnFound(t)
  BY TurnFacts
<1> DEFINE after == IF me[t].back = "report" THEN "stream" ELSE "done"
<1>a. after \in ChatPlaces /\ after \in {"stream", "done"}
  BY DEF ChatPlaces
<1>1. \/ (me[t].recorded \/ me[t].pending \/ UsageIsTerminal(t)) /\ UNCHANGED kernel /\ Records(t, after) /\ faults' = faults
      \/ recordUsageEvent(t, ErrorCharge(t)) /\ Records(t, after) /\ faults' = faults
      \/ recordUsageEvent(t, ErrorCharge(t)) /\ Records(t, after) /\ faults' = faults + 1
      \/ UNCHANGED kernel /\ Records(t, after) /\ faults' = faults + 1
  BY DEF RecordError, Records, UsageIsTerminal, Call, Attempt, Fault, NoWrite
<1>2. me[t].pc = "usage"
  BY DEF RecordError, At
<1> HIDE DEF after
<1>b. ErrorCharge(t) \in {0, Max[t]} /\ (faults = 0 => ErrorCharge(t) = 0)
  BY <1>2, <1>f DEF ErrorCharge, TurnFound, Calm, CalmRows, CalmProcess, UsageIsTerminal, Rested, Terminal, IsReserved
<1>3. CASE (me[t].recorded \/ me[t].pending \/ UsageIsTerminal(t)) /\ UNCHANGED kernel /\ Records(t, after) /\ faults' = faults
  <2>1. [Next]_vars /\ OthersStay(t) /\ RowsStay
    BY <1>3, NoKernelStep
  <2>2. Moved(t) /\ me'[t].pc = after /\ me'[t].marked = me[t].marked
        /\ me'[t].pending = me[t].pending /\ me'[t].delivered = me[t].delivered
    BY <1>3, <1>f, <1>a, RecordMoves DEF TurnFound
  <2>3. faults = 0 => Calm(t)'
    BY <1>2, <1>3, <1>a, <1>b, <1>f, <2>1, <2>2
       DEF RowsStay, Remembers, TurnFound, Calm, CalmRows, CalmProcess, UsageIsTerminal, Rested, Terminal, IsReserved
  <2> QED
    BY <1>3, <1>f, <2>1, <2>2, <2>3, Outcome DEF Remembers
<1>4. CASE recordUsageEvent(t, ErrorCharge(t)) /\ Records(t, after) /\ faults' = faults
  <2>1. Next /\ OthersStay(t) /\ authz' = authz /\ run' = run /\ ~UsageIsTerminal(t)
        /\ usage'[t] = [status |-> "error", manna |-> ErrorCharge(t)]
    BY <1>4, <1>f, <1>b, RecordEffect DEF TurnFound
  <2>2. Moved(t) /\ me'[t].pc = after /\ me'[t].marked = me[t].marked
        /\ me'[t].pending = me[t].pending /\ me'[t].delivered = me[t].delivered
    BY <1>4, <1>f, <1>a, RecordMoves DEF TurnFound
  <2>3. faults = 0 => Calm(t)'
    BY <1>2, <1>4, <1>a, <1>b, <1>f, <2>1, <2>2
       DEF Refunded, Remembers, TurnFound, Calm, CalmRows, CalmProcess, UsageIsTerminal, Rested, Terminal, IsReserved
  <2> QED
    BY <1>4, <1>f, <2>1, <2>2, <2>3, Outcome DEF Remembers
<1>5. CASE recordUsageEvent(t, ErrorCharge(t)) /\ Records(t, after) /\ faults' = faults + 1
  <2>1. Next /\ OthersStay(t) /\ authz' = authz /\ run' = run /\ ~UsageIsTerminal(t)
        /\ usage'[t] = [status |-> "error", manna |-> ErrorCharge(t)]
    BY <1>5, <1>f, <1>b, RecordEffect DEF TurnFound
  <2>2. Moved(t) /\ me'[t].pc = after /\ me'[t].marked = me[t].marked
        /\ me'[t].pending = me[t].pending /\ me'[t].delivered = me[t].delivered
    BY <1>5, <1>f, <1>a, RecordMoves DEF TurnFound
  <2> QED
    BY <1>5, <1>f, <2>1, <2>2, Outcome DEF TurnFound, Remembers
<1>6. CASE UNCHANGED kernel /\ Records(t, after) /\ faults' = faults + 1
  <2>1. [Next]_vars /\ OthersStay(t) /\ RowsStay
    BY <1>6, NoKernelStep
  <2>2. Moved(t) /\ me'[t].pc = after /\ me'[t].marked = me[t].marked
        /\ me'[t].pending = me[t].pending /\ me'[t].delivered = me[t].delivered
    BY <1>6, <1>f, <1>a, RecordMoves DEF TurnFound
  <2> QED
    BY <1>6, <1>f, <2>1, <2>2, Outcome DEF TurnFound, Remembers
<1> QED
  BY <1>1, <1>3, <1>4, <1>5, <1>6

LEMMA CrashCalm ==
  ASSUME ChatInv, NEW t \in Turns, Crash(t)
  PROVE  TurnOutcome(t)
<1>f. TurnFound(t)
  BY TurnFacts
<1>1. \/ endReversal(t, "reversed") /\ Goto(t, "done") /\ faults' = faults + 1
      \/ UNCHANGED kernel /\ Goto(t, "done") /\ faults' = faults + 1
  BY DEF Crash, Fault
<1>2. me[t].pc # "idle"
  BY DEF Crash
<1>3. CASE endReversal(t, "reversed") /\ Goto(t, "done") /\ faults' = faults + 1
  <2>1. Next /\ OthersStay(t) /\ RowsStay
    BY <1>3, WaitEffect DEF Refunded, RowsStay, OthersStay
  <2>2. Moved(t) /\ Remembers(t) /\ me'[t].pc = "done" /\ me'[t].terminal = me[t].terminal
        /\ me'[t].back = me[t].back
    BY <1>3, <1>f, GotoMoves DEF TurnFound, ChatPlaces
  <2> QED
    BY <1>3, <1>f, <2>1, <2>2, Outcome DEF TurnFound, Remembers
<1>4. CASE UNCHANGED kernel /\ Goto(t, "done") /\ faults' = faults + 1
  <2>1. [Next]_vars /\ OthersStay(t) /\ RowsStay
    BY <1>4, NoKernelStep
  <2>2. Moved(t) /\ Remembers(t) /\ me'[t].pc = "done" /\ me'[t].terminal = me[t].terminal
        /\ me'[t].back = me[t].back
    BY <1>4, <1>f, GotoMoves DEF TurnFound, ChatPlaces
  <2> QED
    BY <1>4, <1>f, <2>1, <2>2, Outcome DEF TurnFound, Remembers
<1> QED
  BY <1>1, <1>3, <1>4

-----------------------------------------------------------------------------
(* The steps of the reaper, of time and of the accounts.                   *)

\* What happens to the rows of a turn behind its process's back.
ReaperMay(t) ==
  /\ run'[t] = run[t]
  /\ \/ authz'[t] = authz[t] /\ usage'[t] = usage[t]
     \/ run[t] = "output" /\ authz'[t].state = "settled" /\ usage'[t].status = "error"
     \/ IsReserved(t) /\ authz'[t].state = "reaped" /\ usage'[t] = usage[t]

\* The process of the turn need not know.
LEMMA ReaperCalm ==
  ASSUME NEW t \in Turns, TurnFound(t), faults = 0, ReaperMay(t), me'[t] = me[t]
  PROVE  Calm(t)'
<1> USE DEF Calm, CalmRows, CalmProcess, UsageIsTerminal, Rested, Terminal, IsReserved
<1>1. CASE authz'[t] = authz[t] /\ usage'[t] = usage[t]
  BY <1>1 DEF TurnFound, ReaperMay
<1>2. CASE run[t] = "output" /\ authz'[t].state = "settled" /\ usage'[t].status = "error"
  BY <1>2 DEF TurnFound, ReaperMay, Refunded
<1>3. CASE IsReserved(t) /\ authz'[t].state = "reaped" /\ usage'[t] = usage[t]
  BY <1>3 DEF TurnFound, ReaperMay
<1> QED
  BY <1>1, <1>2, <1>3 DEF ReaperMay

\* What such a step has to establish.
Background ==
  /\ [Next]_vars
  /\ faults' = faults \/ faults' = faults + 1
  /\ me' = me /\ expired' \subseteq Turns /\ reaper' \in ReaperAt
  /\ \A t \in Turns : ReaperMay(t)

\* The reaper is idle, or at a row.
LEMMA ReaperPlace ==
  ASSUME ChatTypeOK
  PROVE  /\ reaper.todo \subseteq Turns
         /\ reaper.pc = "idle" => reaper \in [pc : {"idle"}, todo : SUBSET Turns]
         /\ reaper.pc # "idle" =>
              /\ reaper.row \in Turns
              /\ reaper \in [pc : {"partial", "raced", "reverse", "lock"},
                             todo : SUBSET Turns, row : Turns]
BY DEF ChatTypeOK, ReaperAt

LEMMA ReaperMoves ==
  ASSUME ChatTypeOK, reaper.pc # "idle"
  PROVE  /\ NextRow => reaper' \in ReaperAt
         /\ \A pc \in {"partial", "raced", "reverse", "lock"} :
              ReaperGoto(pc) => reaper' \in ReaperAt
<1>1. NextRow => reaper' \in ReaperAt
  BY ReaperPlace DEF NextRow, ReaperAt
<1>2. ASSUME NEW pc \in {"partial", "raced", "reverse", "lock"}, ReaperGoto(pc)
      PROVE  reaper' \in ReaperAt
  <2>1. reaper' \in [pc : {"partial", "raced", "reverse", "lock"}, todo : SUBSET Turns, row : Turns]
    BY <1>2, ReaperPlace DEF ReaperGoto
  <2> QED
    BY <2>1 DEF ReaperAt
<1> QED
  BY <1>1, <1>2

LEMMA StayBackground ==
  RowsStay => \A t \in Turns : ReaperMay(t)
BY DEF RowsStay, ReaperMay

LEMMA ScanBackground ==
  ASSUME ChatInv, Scan \/ \E t \in Turns : ReapRow(t)
  PROVE  Background
<1>1. UNCHANGED <<kernel, me, expired, faults>>
  BY DEF Scan, ReapRow
<1>2. [Next]_vars /\ \A t \in Turns : ReaperMay(t)
  BY <1>1, StayBackground DEF kernel, vars, RowsStay
<1>3. CASE Scan
  <2>1. reaper.pc = "idle" /\ reaper' = [reaper EXCEPT !.todo = {t \in expired : IsReserved(t)}]
    BY <1>3 DEF Scan
  <2>2. {t \in expired : IsReserved(t)} \in SUBSET Turns
    BY DEF ChatInv, ChatTypeOK
  <2>3. reaper \in [pc : {"idle"}, todo : SUBSET Turns]
    BY <2>1, ReaperPlace DEF ChatInv
  <2> HIDE <1>3
  <2>4. reaper' \in [pc : {"idle"}, todo : SUBSET Turns]
    BY <2>1, <2>2, <2>3
  <2> QED
    BY <1>1, <1>2, <2>4 DEF Background, ReaperAt, ChatInv, ChatTypeOK
<1>4. ASSUME NEW t \in Turns, ReapRow(t)
      PROVE  Background
  <2>1. reaper' = [pc |-> "partial", todo |-> reaper.todo, row |-> t]
    BY <1>4 DEF ReapRow
  <2>2. reaper' \in ReaperAt
    BY <2>1, ReaperPlace DEF ReaperAt, ChatInv
  <2> QED
    BY <1>1, <1>2, <2>2 DEF Background, ChatInv, ChatTypeOK
<1> QED
  BY <1>3, <1>4

\* The rows after the reaper's settlement of a marked turn.
LEMMA PartialBackground ==
  ASSUME ChatInv, NEW t \in Turns, settlePartialOutputAuthorization(t)
  PROVE  Next /\ \A u \in Turns : ReaperMay(u)
<1>1. KernelTypes
  BY KernelTyped DEF ChatInv
<1> QED
  BY <1>1, PartialEffect DEF ReaperMay, OthersStay

\* ... and after its reversal.
LEMMA ReverseBackground ==
  ASSUME ChatInv, NEW t \in Turns, reverseTurnAuthorization(t, "reaped")
  PROVE  Next /\ \A u \in Turns : ReaperMay(u)
<1>1. KernelTypes /\ "reaped" \in Refunded
  BY KernelTyped DEF ChatInv, Refunded
<1> QED
  BY <1>1, ReverseEffect DEF ReaperMay, OthersStay

LEMMA WaitBackground ==
  ASSUME NEW t \in Turns, beginReversal(t, "reaped") \/ endReversal(t, "reaped")
  PROVE  Next /\ \A u \in Turns : ReaperMay(u)
<1>1. "reaped" \in Refunded
  BY DEF Refunded
<1> QED
  BY <1>1, WaitEffect, StayBackground

LEMMA NoKernelBackground ==
  ASSUME UNCHANGED kernel
  PROVE  [Next]_vars /\ \A u \in Turns : ReaperMay(u)
BY StayBackground DEF kernel, vars, RowsStay

LEMMA ReapBackground ==
  ASSUME ChatInv, ReapPartial \/ ReapBeginReverse \/ ReapFinishReverse
  PROVE  Background
<1>1. /\ reaper.pc # "idle" /\ UNCHANGED <<me, expired>>
  BY DEF ReapPartial, ReapBeginReverse, ReapFinishReverse
<1>2. ChatTypeOK /\ reaper.row \in Turns
  BY <1>1, ReaperPlace DEF ChatInv
<1>3. NextRow \/ (\E pc \in {"reverse", "raced", "lock"} : ReaperGoto(pc)) => reaper' \in ReaperAt
  BY <1>1, <1>2, ReaperMoves
<1>4. CASE ReapPartial
  <2>1. /\ \/ settlePartialOutputAuthorization(reaper.row)
           \/ UNCHANGED kernel
        /\ faults' = faults \/ faults' = faults + 1
        /\ NextRow \/ ReaperGoto("reverse")
    BY <1>4 DEF ReapPartial, Call, Attempt, Fault, NoWrite
  <2> QED
    BY <1>1, <1>2, <1>3, <2>1, PartialBackground, NoKernelBackground DEF Background, ChatTypeOK
<1>5. CASE ReapBeginReverse
  <2>1. /\ beginReversal(reaper.row, "reaped") \/ UNCHANGED kernel
        /\ faults' = faults \/ faults' = faults + 1
        /\ NextRow \/ ReaperGoto("lock") \/ ReaperGoto("raced")
    BY <1>5 DEF ReapBeginReverse, Fault, NoWrite
  <2> QED
    BY <1>1, <1>2, <1>3, <2>1, WaitBackground, NoKernelBackground DEF Background, ChatTypeOK
<1>6. CASE ReapFinishReverse
  <2>1. /\ \/ reverseTurnAuthorization(reaper.row, "reaped")
           \/ endReversal(reaper.row, "reaped")
        /\ faults' = faults \/ faults' = faults + 1
        /\ NextRow
    BY <1>6 DEF ReapFinishReverse, Attempt, Fault
  <2> QED
    BY <1>1, <1>2, <1>3, <2>1, ReverseBackground, WaitBackground DEF Background, ChatTypeOK
<1> QED
  BY <1>4, <1>5, <1>6

LEMMA OtherBackground ==
  ASSUME ChatInv, FundAccount \/ \E t \in Turns : Expire(t)
  PROVE  Background
<1>1. ChatTypeOK
  BY DEF ChatInv
<1>2. CASE FundAccount
  <2>1. PICK a \in Accounts, n \in Amounts, o \in Ops, s \in BOOLEAN : Fund(a, n, o, s)
    BY <1>2 DEF FundAccount
  <2>2. Next /\ RowsStay
    BY <2>1 DEF Next, Fund, RowsStay
  <2> QED
    BY <1>1, <1>2, <2>2, StayBackground DEF FundAccount, Background, ChatTypeOK
<1>3. ASSUME NEW t \in Turns, Expire(t)
      PROVE  Background
  BY <1>1, <1>3, NoKernelBackground DEF Expire, Background, ChatTypeOK
<1> QED
  BY <1>2, <1>3

-----------------------------------------------------------------------------
(* The theorems about chat turns.                                          *)

LEMMA InitChatInv ==
  ChatInit => ChatInv
<1> SUFFICES ASSUME ChatInit  PROVE ChatInv
  OBVIOUS
<1>1. IInv
  BY InitIInv DEF ChatInit
<1>2. ChatTypeOK
  BY DEF ChatInit, NoChats, ChatTypeOK, TurnProcess, ChatPlaces, Callers, ReaperAt
<1>3. \A t \in Turns : DeliveredKept(t) /\ Calm(t)
  BY DEF ChatInit, NoChats, Init, NoTurns, DeliveredKept, Calm, CalmRows, CalmProcess,
         UsageIsTerminal
<1> QED
  BY <1>1, <1>2, <1>3 DEF ChatInv

\* A step keeps the rest of the invariant once the kernel's is kept.
LEMMA TurnConcludes ==
  ASSUME ChatInv, NEW t \in Turns, TurnOutcome(t), UNCHANGED <<expired, reaper>>
  PROVE  ChatInv'
<1>1. IInv' /\ KeepsOutcomes
  BY NextIInv DEF ChatInv, TurnOutcome
<1>2. ChatTypeOK'
  BY DEF ChatInv, ChatTypeOK, TurnOutcome
<1>3. ASSUME NEW u \in Turns
      PROVE  DeliveredKept(u)'
  <2>1. DeliveredKept(u) /\ (me'[u].delivered => \/ me[u].delivered
                                                \/ run'[u] = "output"
                                                \/ authz'[u].state = "settled")
    BY DEF ChatInv, TurnOutcome
  <2> QED
    BY <1>1, <2>1 DEF DeliveredKept, KeepsOutcomes, Terminal
<1>4. ASSUME NEW u \in Turns, faults' = 0
      PROVE  Calm(u)'
  <2>1. CASE u = t
    BY <1>4, <2>1 DEF TurnOutcome
  <2>2. CASE u # t
    <3>1. /\ me'[u] = me[u] /\ authz'[u] = authz[u] /\ run'[u] = run[u] /\ usage'[u] = usage[u]
          /\ faults = 0
      BY <1>4, <2>2 DEF TurnOutcome, OthersStay
    <3> QED
      BY <3>1, TurnFacts, ReaperCalm DEF ReaperMay
  <2> QED
    BY <2>1, <2>2
<1> QED
  BY <1>1, <1>2, <1>3, <1>4 DEF ChatInv

LEMMA BackgroundConcludes ==
  ASSUME ChatInv, Background
  PROVE  ChatInv'
<1>1. IInv' /\ KeepsOutcomes
  BY NextIInv DEF ChatInv, Background
<1>2. ChatTypeOK'
  BY DEF ChatInv, ChatTypeOK, Background
<1>3. ASSUME NEW u \in Turns
      PROVE  DeliveredKept(u)'
  <2>1. DeliveredKept(u) /\ me' = me
    BY DEF ChatInv, Background
  <2> QED
    BY <1>1, <2>1 DEF DeliveredKept, KeepsOutcomes, Terminal
<1>4. ASSUME NEW u \in Turns, faults' = 0
      PROVE  Calm(u)'
  <2>1. faults = 0 /\ me' = me /\ ReaperMay(u)
    BY <1>4 DEF Background, ChatInv, ChatTypeOK
  <2> QED
    BY <2>1, TurnFacts, ReaperCalm
<1> QED
  BY <1>1, <1>2, <1>3, <1>4 DEF ChatInv

LEMMA NextChatInv ==
  ChatInv /\ [ChatNext]_chatVars => ChatInv' /\ [Next]_vars
<1> SUFFICES ASSUME ChatInv, [ChatNext]_chatVars  PROVE ChatInv' /\ [Next]_vars
  OBVIOUS
<1>1. ASSUME NEW t \in Turns, TurnStep(t)
      PROVE  TurnOutcome(t) /\ UNCHANGED <<expired, reaper>>
  BY <1>1, ReserveCalm, ClaimCalm, PrepareCalm, FirstTokenCalm, CompletedCalm, StreamCalm,
     PartialCalm, BeginCalm, FinishCalm, RecordCalm, CrashCalm DEF TurnStep
<1>2. ASSUME \/ FundAccount \/ Reap
             \/ \E t \in Turns : Expire(t)
      PROVE  Background
  BY <1>2, ScanBackground, ReapBackground, OtherBackground DEF Reap
<1>3. CASE UNCHANGED chatVars
  <2>1. Background
    BY <1>3, NoKernelBackground DEF chatVars, ownChatVars, Background, ChatInv, ChatTypeOK
  <2> QED
    BY <2>1, BackgroundConcludes DEF Background
<1>4. CASE ChatNext
  BY <1>1, <1>2, <1>4, TurnConcludes, BackgroundConcludes DEF ChatNext, Background, TurnOutcome
<1> QED
  BY <1>3, <1>4

LEMMA ChatInductive ==
  ChatSpec => []ChatInv
BY InitChatInv, NextChatInv, PTL DEF ChatSpec

\* Whatever turns, the reaper, failures, lost acknowledgements and crashes do,
\* they drive the kernel only through its transactions: chat turns implement
\* the authorization kernel, and what is proved of it holds of them.
THEOREM ChatImplementsKernel ==
  ChatSpec => Spec
<1>1. ChatInit => Init
  BY DEF ChatInit
<1> QED
  BY ChatInductive, NextChatInv, <1>1, PTL DEF ChatSpec, Spec

\* markTurnUsableOutput before the first token and settleTerminal before the
\* reply: output that a client has is never refunded, whatever fails.
THEOREM DeliveredIsPaidThm ==
  ChatSpec => []DeliveredIsPaid
<1>1. ChatInv => DeliveredIsPaid
  <2> SUFFICES ASSUME ChatInv, NEW t \in Turns \ raced, me[t].delivered
               PROVE  authz[t].state \in {"reserved", "settled"}
    BY DEF DeliveredIsPaid
  <2>1. run[t] = "output" \/ authz[t].state = "settled"
    BY DEF ChatInv, DeliveredKept
  <2>2. TurnFound(t) /\ IInv
    BY TurnFacts DEF ChatInv
  <2> QED
    BY <2>1, <2>2 DEF IInv, MarkKept, Refunded, TurnFound, Terminal
<1> QED
  BY ChatInductive, <1>1, PTL

\* The awaits of runClaimedTurn and the reaper's pass, interleaved in any way:
\* without a failure a turn that ends leaves its reservation ended and its
\* usage row saying what was really charged.
THEOREM UndisturbedTurnIsExactThm ==
  ChatSpec => []UndisturbedTurnIsExact
<1>1. ChatInv => UndisturbedTurnIsExact
  <2> SUFFICES ASSUME ChatInv, NEW t \in Turns, faults = 0, At(t, "done"), run[t] # "none"
               PROVE  /\ authz[t].state \in Terminal
                      /\ usage[t].status \in {"completed", "error"}
                      /\ usage[t].manna = NetCharge(t)
    BY DEF UndisturbedTurnIsExact
  <2>1. TurnFound(t) /\ IInv
    BY TurnFacts DEF ChatInv
  <2>2. Rested(t) /\ (authz[t].state \in Refunded => usage[t].manna = 0)
    BY <2>1 DEF TurnFound, Calm, CalmRows, CalmProcess, At, Rested
  <2>3. MoneyOf(t) /\ Max[t] \in Nat /\ authz[t] \in Authorization /\ SettledUsageExact
    BY <2>1, Unfolded DEF IInv
  <2>4. authz[t].state \in {"settled", "reversed", "reaped"}
    BY <2>2 DEF Rested, Terminal
  <2>5. alreadyRefundedManna(ledger, t) = Returned(t)
    BY <2>3, <2>4 DEF MoneyOf
  <2>6. CASE authz[t].state = "settled"
    <3>1. Returned(t) = Max[t] - authz[t].charged /\ usage[t].manna = authz[t].charged
      BY <2>3, <2>6 DEF Returned, SettledUsageExact
    <3>2. authz[t].charged \in Nat
      BY <2>3 DEF Authorization
    <3> QED
      BY <2>2, <2>3, <2>5, <3>1, <3>2 DEF NetCharge, Rested, UsageIsTerminal
  <2>7. CASE authz[t].state \in {"reversed", "reaped"}
    <3>1. Returned(t) = Max[t]
      BY <2>7 DEF Returned
    <3> QED
      BY <2>2, <2>3, <2>5, <2>7, <3>1 DEF NetCharge, Rested, UsageIsTerminal, Refunded
  <2> QED
    BY <2>4, <2>6, <2>7
<1> QED
  BY ChatInductive, <1>1, PTL

-----------------------------------------------------------------------------
(* Dictations: a step of anybody keeps the rows coupled.                   *)

StepNames == {"recover", "retry", "expire", "cleanup", "claim", "purge", "compensate",
              "markError", "admit", "fail", "transcribe", "complete"}

Dictators == Transcribers \cup {Owner}

NamesIn(s) == {s[i] : i \in 1..Len(s)}

Refunding == {"refund_pending", "error"}

DictationTypeOK ==
  /\ session \in [status : {"none", "uploading", "queued", "processing"} \cup TerminalStatuses,
                  token : Dictators \cup {NoClaim}, started : BOOLEAN, deleting : BOOLEAN]
  /\ audio \in {"none", "files", "erased", "purged"}
  /\ usageRow \in {"none", "pending", "provider_admitted", "completed"} \cup Refunding
  /\ held \in {"none", "held", "returned"}
  /\ calls \in Nat

\* What the usage row and the reservation are at each status, until a terminal
\* one; of money that went back the usage row knows.
RowsAgree ==
  /\ session.status \in {"none", "uploading"} =>
       usageRow = "none" /\ held = "none" /\ ~session.started
  /\ session.status = "queued" => usageRow = "pending" /\ held = "held" /\ ~session.started
  /\ session.status = "processing" =>
       /\ usageRow = IF session.started THEN "provider_admitted" ELSE "pending"
       /\ held = "held"
  /\ session.status = "completed" =>
       usageRow = "completed" /\ held = "held" /\ ~session.deleting
  /\ held = "returned" => usageRow \in Refunding

StepsTyped == steps \in [Dictators -> Seq(StepNames)]

\* Nobody is about to return money that the usage row does not give up.
ReturnsAreDue ==
  \A w \in Dictators : "compensate" \in NamesIn(steps[w]) => usageRow \in Refunding

\* Who may call the provider is alone, and nobody has called it before.
CallsAreSingle ==
  /\ ~session.started => calls = 0 /\ \A w \in Dictators : "transcribe" \notin NamesIn(steps[w])
  /\ \A w \in Dictators : "transcribe" \in NamesIn(steps[w]) =>
       calls = 0 /\ \A v \in Dictators \ {w} : "transcribe" \notin NamesIn(steps[v])
  /\ calls <= 1

DictationInv == DictationTypeOK /\ RowsAgree /\ StepsTyped /\ ReturnsAreDue /\ CallsAreSingle

\* What is new in a queue of steps comes from the list that was put there.
QueuesFrom(w, list) ==
  /\ StepsTyped'
  /\ \A v \in Dictators :
       NamesIn(steps'[v]) \subseteq NamesIn(steps[v]) \cup (IF v = w THEN NamesIn(list) ELSE {})

LEMMA ListNames ==
  /\ <<>> \in Seq(StepNames) /\ NamesIn(<<>>) = {}
  /\ <<"purge">> \in Seq(StepNames) /\ NamesIn(<<"purge">>) = {"purge"}
  /\ <<"compensate">> \in Seq(StepNames) /\ NamesIn(<<"compensate">>) = {"compensate"}
  /\ <<"admit">> \in Seq(StepNames) /\ NamesIn(<<"admit">>) = {"admit"}
  /\ <<"fail">> \in Seq(StepNames) /\ NamesIn(<<"fail">>) = {"fail"}
  /\ <<"complete">> \in Seq(StepNames) /\ NamesIn(<<"complete">>) = {"complete"}
  /\ <<"transcribe">> \in Seq(StepNames) /\ NamesIn(<<"transcribe">>) = {"transcribe"}
  /\ <<"purge", "compensate">> \in Seq(StepNames)
  /\ NamesIn(<<"purge", "compensate">>) = {"purge", "compensate"}
  /\ LET tick == <<"recover", "retry", "expire", "cleanup", "claim">>
     IN tick \in Seq(StepNames) /\ {"compensate", "transcribe"} \cap NamesIn(tick) = {}
<1>1. NamesIn(<<>>) = {} /\ <<>> \in Seq(StepNames)
  BY DEF NamesIn
<1>2. \A x \in StepNames : <<x>> \in Seq(StepNames) /\ NamesIn(<<x>>) = {x}
  BY DEF NamesIn
<1>3. <<"purge", "compensate">> \in Seq(StepNames)
  BY DEF StepNames
<1>4. NamesIn(<<"purge", "compensate">>) = {"purge", "compensate"}
  BY DEF NamesIn
<1>5. <<"recover", "retry", "expire", "cleanup", "claim">> \in Seq(StepNames)
  BY DEF StepNames
<1>6. {"compensate", "transcribe"} \cap NamesIn(<<"recover", "retry", "expire", "cleanup", "claim">>) = {}
  BY DEF NamesIn
<1> QED
  BY <1>1, <1>2, <1>3, <1>4, <1>5, <1>6 DEF StepNames

LEMMA GoesToQueues ==
  ASSUME StepsTyped, NEW w \in Dictators, NEW list \in Seq(StepNames), GoesTo(w, list)
  PROVE  QueuesFrom(w, list) /\ steps' = [steps EXCEPT ![w] = list]
BY DEF StepsTyped, GoesTo, QueuesFrom

LEMMA ThenQueues ==
  ASSUME StepsTyped, NEW w \in Dictators, NEW list \in Seq(StepNames), Then(w, list),
         steps[w] # <<>>
  PROVE  QueuesFrom(w, list)
<1> DEFINE s == steps[w]
           r == list \o Tail(s)
<1>1. s \in Seq(StepNames) /\ s # <<>> /\ Len(s) \in Nat \ {0} /\ Len(list) \in Nat
  BY DEF StepsTyped
<1>2. /\ Tail(s) \in Seq(StepNames) /\ Len(Tail(s)) = Len(s) - 1
      /\ \A i \in 1..(Len(s) - 1) : Tail(s)[i] = s[i + 1]
  BY <1>1
<1>3. r \in Seq(StepNames) /\ Len(r) = Len(list) + Len(s) - 1
  BY <1>1, <1>2
<1>4. \A i \in 1..Len(r) :
        r[i] = IF i <= Len(list) THEN list[i] ELSE s[i - Len(list) + 1]
  BY <1>1, <1>2, <1>3
<1>5. NamesIn(r) \subseteq NamesIn(s) \cup NamesIn(list)
  <2>1. SUFFICES ASSUME NEW i \in 1..Len(r)
                 PROVE  r[i] \in NamesIn(s) \cup NamesIn(list)
    BY DEF NamesIn
  <2>2. CASE i <= Len(list)
    BY <1>1, <1>4, <2>2 DEF NamesIn
  <2>3. CASE ~(i <= Len(list))
    <3>1. i - Len(list) + 1 \in 1..Len(s)
      BY <1>1, <1>3, <2>3
    <3> QED
      BY <1>4, <2>3, <3>1 DEF NamesIn
  <2> QED
    BY <2>2, <2>3
<1>6. steps' = [steps EXCEPT ![w] = r]
  BY DEF Then
<1> HIDE DEF r, s
<1> QED
  BY <1>3, <1>5, <1>6 DEF StepsTyped, QueuesFrom, s

\* A list that calls no provider, and returns money only when it is due.
Harmless(list) ==
  /\ "compensate" \in NamesIn(list) => usageRow' \in Refunding
  /\ "transcribe" \notin NamesIn(list)

RowsMove ==
  /\ DictationTypeOK' /\ RowsAgree'
  /\ usageRow \in Refunding => usageRow' \in Refunding
  /\ session.started => session'.started
  /\ calls' = calls

LEMMA HarmlessStep ==
  ASSUME DictationInv, NEW w \in Dictators, NEW list, QueuesFrom(w, list), Harmless(list), RowsMove
  PROVE  DictationInv'
<1>1. ReturnsAreDue'
  BY DEF DictationInv, ReturnsAreDue, QueuesFrom, Harmless, RowsMove
<1>2. \A v \in Dictators : "transcribe" \in NamesIn(steps'[v]) => "transcribe" \in NamesIn(steps[v])
  BY DEF QueuesFrom, Harmless
<1>3. session'.started \in BOOLEAN /\ session.started \in BOOLEAN
  BY DEF RowsMove, DictationTypeOK, DictationInv
<1>4. CallsAreSingle'
  BY <1>2, <1>3 DEF DictationInv, CallsAreSingle, RowsMove
<1> QED
  BY <1>1, <1>4 DEF DictationInv, QueuesFrom, RowsMove

LEMMA RowsStand ==
  ASSUME DictationInv, UNCHANGED transcriptionRows
  PROVE  RowsMove
BY DEF DictationInv, RowsMove, transcriptionRows, DictationTypeOK, RowsAgree

LEMMA QueuesStand ==
  ASSUME DictationInv, UNCHANGED steps, NEW w \in Dictators
  PROVE  QueuesFrom(w, <<>>) /\ Harmless(<<>>)
BY ListNames DEF DictationInv, QueuesFrom, StepsTyped, Harmless

-----------------------------------------------------------------------------
(* Each step of a dictation.                                               *)

LEMMA OwnerIsDictator == Owner \in Dictators /\ Transcribers \subseteq Dictators
BY DEF Dictators

LEMMA OwnerKeeps ==
  ASSUME DictationInv, create \/ append \/ finalize \/ TtlPasses \/ ClaimLapses
  PROVE  DictationInv'
<1>1. RowsMove /\ UNCHANGED steps
  BY DEF DictationInv, create, append, finalize, TtlPasses, ClaimLapses, RowsMove,
         DictationTypeOK, RowsAgree, Refunding, TerminalStatuses
<1> QED
  BY <1>1, HarmlessStep, QueuesStand, OwnerIsDictator

LEMMA DeletionKeeps == ASSUME DictationInv, deleteOwned PROVE DictationInv'
<1> USE OwnerIsDictator
<1>1. CASE session.status = "processing" /\ session.started
  <2>1. RowsMove /\ UNCHANGED steps
    BY <1>1 DEF DictationInv, deleteOwned, RowsMove, DictationTypeOK, RowsAgree, Refunding,
                TerminalStatuses
  <2> QED
    BY <2>1, HarmlessStep, QueuesStand
<1>2. CASE ~(session.status = "processing" /\ session.started)
  <2> DEFINE gives == session.status \in {"queued", "processing"}
             list == IF gives THEN <<"purge", "compensate">> ELSE <<"purge">>
  <2>1. RowsMove
    BY <1>2 DEF DictationInv, deleteOwned, RowsMove, DictationTypeOK, RowsAgree, Refunding,
                TerminalStatuses, Ended
  <2>2. GoesTo(Owner, list) /\ (gives => usageRow' = "refund_pending")
    BY <1>2 DEF deleteOwned
  <2>3. list \in Seq(StepNames) /\ Harmless(list)
    BY <2>2, ListNames DEF Harmless, Refunding
  <2> HIDE DEF list
  <2> QED
    BY <2>1, <2>2, <2>3, HarmlessStep, GoesToQueues DEF DictationInv
<1> QED
  BY <1>1, <1>2

LEMMA PurgeKeeps ==
  ASSUME DictationInv, NEW w \in Dictators, purgeAudio(w) PROVE DictationInv'
<1>1. RowsMove
  BY DEF DictationInv, purgeAudio, RowsMove, transcriptionRows, DictationTypeOK, RowsAgree
<1>2. steps[w] # <<>> /\ (Then(w, <<>>) \/ GoesTo(w, <<>>))
  BY DEF purgeAudio, IsAt
<1> QED
  BY <1>1, <1>2, HarmlessStep, GoesToQueues, ThenQueues, ListNames DEF DictationInv, Harmless

LEMMA ReversalKeeps ==
  ASSUME DictationInv, NEW w \in Dictators, reverseHeld(w) PROVE DictationInv'
<1> DEFINE list == <<"markError">> \o Tail(steps[w])
<1>1. steps[w] \in Seq(StepNames) /\ steps[w] # <<>> /\ Head(steps[w]) = "compensate"
  BY DEF DictationInv, StepsTyped, reverseHeld, IsAt
<1>2. usageRow \in Refunding
  BY <1>1 DEF DictationInv, ReturnsAreDue, NamesIn
<1>3. RowsMove
  BY <1>2 DEF DictationInv, reverseHeld, Try, RowsMove, transcriptionRows, DictationTypeOK,
              RowsAgree, Refunding
<1>4. GoesTo(w, <<>>) \/ Then(w, <<"markError">>)
  BY DEF reverseHeld, Try, GoesTo, Then
<1>5. <<"markError">> \in Seq(StepNames) /\ NamesIn(<<"markError">>) = {"markError"}
  BY DEF StepNames, NamesIn
<1> QED
  BY <1>1, <1>3, <1>4, <1>5, HarmlessStep, GoesToQueues, ThenQueues, ListNames
  DEF DictationInv, Harmless

LEMMA MarkErrorKeeps ==
  ASSUME DictationInv, NEW w \in Dictators, markError(w) PROVE DictationInv'
<1>1. RowsMove
  BY DEF DictationInv, markError, Try, RowsMove, transcriptionRows, DictationTypeOK,
         RowsAgree, Refunding
<1>2. steps[w] # <<>> /\ (Then(w, <<>>) \/ GoesTo(w, <<>>))
  BY DEF markError, IsAt, Try
<1> QED
  BY <1>1, <1>2, HarmlessStep, GoesToQueues, ThenQueues, ListNames DEF DictationInv, Harmless

LEMMA SkipKeeps ==
  ASSUME DictationInv, NEW w \in Dictators, steps[w] # <<>>, Skips(w) PROVE DictationInv'
BY RowsStand, HarmlessStep, ThenQueues, ListNames DEF Skips, DictationInv, Harmless

LEMMA TickKeeps ==
  ASSUME DictationInv, NEW w \in Dictators, runOnce(w) \/ Dies(w) PROVE DictationInv'
<1>1. RowsMove
  BY RowsStand DEF runOnce, Dies
<1>2. CASE runOnce(w)
  BY <1>1, <1>2, HarmlessStep, GoesToQueues, ListNames DEF runOnce, DictationInv, Harmless
<1>3. CASE Dies(w)
  BY <1>1, <1>3, HarmlessStep, GoesToQueues, ListNames DEF Dies, DictationInv, Harmless
<1> QED
  BY <1>2, <1>3

LEMMA RecoveryKeeps ==
  ASSUME DictationInv, NEW w \in Dictators, recoverOneStaleClaim(w) PROVE DictationInv'
<1>1. steps[w] # <<>>
  BY DEF recoverOneStaleClaim, IsAt
<1>2. CASE ~IsStaleClaim
  BY <1>1, <1>2, SkipKeeps DEF recoverOneStaleClaim
<1>3. CASE IsStaleClaim /\ session.started
  <2>1. session.status = "processing"
    BY <1>3 DEF IsStaleClaim
  <2>a. \/ /\ session' = Ended("failed") /\ usageRow' = "refund_pending"
           /\ UNCHANGED <<audio, held, calls>>
        \/ UNCHANGED transcriptionRows
    BY <1>3 DEF recoverOneStaleClaim, Try
  <2>b. ASSUME session' = Ended("failed"), usageRow' = "refund_pending",
               UNCHANGED <<audio, held, calls>>
        PROVE  RowsMove
    BY <2>1, <2>b DEF DictationInv, RowsMove, DictationTypeOK, RowsAgree, Refunding,
                      TerminalStatuses, Ended
  <2>2. RowsMove
    BY <2>a, <2>b, RowsStand
  <2>3. \/ Then(w, <<"purge", "compensate">>) /\ usageRow' = "refund_pending"
        \/ GoesTo(w, <<>>)
    BY <1>3 DEF recoverOneStaleClaim, Try
  <2> QED
    BY <1>1, <2>2, <2>3, HarmlessStep, GoesToQueues, ThenQueues, ListNames
    DEF DictationInv, Harmless, Refunding
<1>4. CASE IsStaleClaim /\ ~session.started
  <2>1. session.status = "processing"
    BY <1>4 DEF IsStaleClaim
  <2>2. RowsMove
    BY <1>4, <2>1 DEF DictationInv, recoverOneStaleClaim, Try, RowsMove, transcriptionRows,
                      DictationTypeOK, RowsAgree, Refunding, TerminalStatuses, Ended
  <2>3. Then(w, <<>>) \/ GoesTo(w, <<>>)
    BY <1>4 DEF recoverOneStaleClaim, Try
  <2> QED
    BY <1>1, <2>2, <2>3, HarmlessStep, GoesToQueues, ThenQueues, ListNames
    DEF DictationInv, Harmless
<1> QED
  BY <1>2, <1>3, <1>4

LEMMA RetryKeeps ==
  ASSUME DictationInv, NEW w \in Dictators,
         retryOneCompensation(w) \/ cleanupOneTerminalAudio(w)
  PROVE  DictationInv'
<1>1. steps[w] # <<>>
  BY DEF retryOneCompensation, cleanupOneTerminalAudio, IsAt
<1>2. \/ Skips(w)
      \/ Then(w, <<"purge">>) /\ UNCHANGED transcriptionRows
      \/ /\ Then(w, <<"compensate">>) /\ UNCHANGED transcriptionRows
         /\ usageRow = "refund_pending"
  BY DEF retryOneCompensation, cleanupOneTerminalAudio
<1>3. CASE Skips(w)
  BY <1>1, <1>3, SkipKeeps
<1>4. CASE Then(w, <<"purge">>) /\ UNCHANGED transcriptionRows
  BY <1>1, <1>4, RowsStand, HarmlessStep, ThenQueues, ListNames DEF DictationInv, Harmless
<1>5. CASE /\ Then(w, <<"compensate">>) /\ UNCHANGED transcriptionRows
           /\ usageRow = "refund_pending"
  <2>1. usageRow' \in Refunding
    BY <1>5 DEF transcriptionRows, Refunding
  <2> QED
    BY <1>1, <1>5, <2>1, RowsStand, HarmlessStep, ThenQueues, ListNames
    DEF DictationInv, Harmless
<1> QED
  BY <1>2, <1>3, <1>4, <1>5

LEMMA ExpiryKeeps ==
  ASSUME DictationInv, NEW w \in Dictators, expireOne(w) PROVE DictationInv'
<1> DEFINE gives == session.status = "queued"
           list == IF gives THEN <<"purge", "compensate">> ELSE <<"purge">>
<1>1. steps[w] # <<>>
  BY DEF expireOne, IsAt
<1>2. CASE overdue /\ session.status \in {"uploading", "queued", "completed", "failed"}
  <2>1. RowsMove
    BY <1>2 DEF DictationInv, expireOne, Try, RowsMove, transcriptionRows, DictationTypeOK,
                RowsAgree, Refunding, TerminalStatuses
  <2>2. \/ Then(w, list) /\ (gives => usageRow' \in Refunding)
        \/ GoesTo(w, <<>>)
    BY <1>2 DEF DictationInv, RowsAgree, expireOne, Try, Refunding
  <2>3. list \in Seq(StepNames) /\ ((gives => usageRow' \in Refunding) => Harmless(list))
    BY ListNames DEF Harmless
  <2> HIDE DEF list, gives
  <2> QED
    BY <1>1, <2>1, <2>2, <2>3, HarmlessStep, GoesToQueues, ThenQueues, ListNames
    DEF DictationInv, Harmless
<1>3. CASE ~(overdue /\ session.status \in {"uploading", "queued", "completed", "failed"})
  BY <1>1, <1>3, SkipKeeps DEF expireOne
<1> QED
  BY <1>2, <1>3

LEMMA ClaimKeeps ==
  ASSUME DictationInv, NEW w \in Dictators, claimNextSession(w) PROVE DictationInv'
<1> USE OwnerIsDictator
<1>1. steps[w] # <<>>
  BY DEF claimNextSession, IsAt
<1>2. CASE session.status = "queued" /\ ~overdue
  <2>1. RowsMove
    BY <1>2 DEF DictationInv, claimNextSession, RowsMove, DictationTypeOK, RowsAgree, Refunding,
                TerminalStatuses
  <2>2. Then(w, <<"admit">>) \/ Then(w, <<"fail">>) \/ GoesTo(w, <<>>)
    BY <1>2 DEF claimNextSession
  <2> QED
    BY <1>1, <2>1, <2>2, HarmlessStep, GoesToQueues, ThenQueues, ListNames
    DEF DictationInv, Harmless
<1>3. CASE ~(session.status = "queued" /\ ~overdue)
  BY <1>1, <1>3, SkipKeeps DEF claimNextSession
<1> QED
  BY <1>2, <1>3

\* The one step that lets a worker call the provider, and the call.
LEMMA AdmissionKeeps ==
  ASSUME DictationInv, NEW w \in Dictators, markProviderStarted(w) PROVE DictationInv'
<1> DEFINE goes == HoldsSession(w) /\ ~session.started /\ ~session.deleting
<1>1. CASE goes
  <2>1. RowsMove
    BY <1>1 DEF DictationInv, HoldsSession, markProviderStarted, Try, RowsMove, DictationTypeOK,
                RowsAgree, Refunding, TerminalStatuses, transcriptionRows
  <2>2. \/ GoesTo(w, <<"transcribe">>) /\ session'.started
        \/ GoesTo(w, <<"fail">>)
    BY <1>1 DEF markProviderStarted, Try, DictationInv, DictationTypeOK
  <2>3. CASE GoesTo(w, <<"fail">>)
    BY <2>1, <2>3, HarmlessStep, GoesToQueues, ListNames DEF DictationInv, Harmless
  <2>4. CASE GoesTo(w, <<"transcribe">>) /\ session'.started
    <3>1. QueuesFrom(w, <<"transcribe">>) /\ NamesIn(<<"transcribe">>) = {"transcribe"}
      BY <2>4, GoesToQueues, ListNames DEF DictationInv
    <3>2. ReturnsAreDue'
      BY <2>1, <3>1 DEF DictationInv, ReturnsAreDue, QueuesFrom, RowsMove
    <3>3. calls' = 0 /\ \A v \in Dictators : "transcribe" \notin NamesIn(steps[v])
      BY <1>1, <2>1 DEF DictationInv, CallsAreSingle, RowsMove
    <3>4. CallsAreSingle'
      BY <2>4, <3>1, <3>3 DEF CallsAreSingle, QueuesFrom
    <3> QED
      BY <2>1, <3>1, <3>2, <3>4 DEF DictationInv, QueuesFrom, RowsMove
  <2> QED
    BY <2>2, <2>3, <2>4
<1>2. CASE ~goes
  BY <1>2, RowsStand, HarmlessStep, GoesToQueues, ListNames
  DEF markProviderStarted, DictationInv, Harmless
<1> QED
  BY <1>1, <1>2

LEMMA CallKeeps ==
  ASSUME DictationInv, NEW w \in Dictators, transcribe(w) PROVE DictationInv'
<1>1. "transcribe" \in NamesIn(steps[w])
  BY DEF DictationInv, StepsTyped, transcribe, IsAt, NamesIn
<1>2. PICK list \in {<<"complete">>, <<"fail">>} : GoesTo(w, list)
  BY DEF transcribe
<1>3. /\ list \in Seq(StepNames) /\ NamesIn(list) \cap {"transcribe", "compensate"} = {}
  BY <1>2, ListNames
<1>4. QueuesFrom(w, list) /\ steps' = [steps EXCEPT ![w] = list]
  BY <1>2, <1>3, GoesToQueues DEF DictationInv
<1>5. calls = 0 /\ session.started /\ \A v \in Dictators \ {w} : "transcribe" \notin NamesIn(steps[v])
  BY <1>1 DEF DictationInv, CallsAreSingle
<1>6. calls' = 1 /\ UNCHANGED <<session, audio, usageRow, held>>
  BY <1>5 DEF transcribe
<1>7. \A v \in Dictators : "transcribe" \notin NamesIn(steps'[v])
  BY <1>3, <1>4, <1>5 DEF QueuesFrom, DictationInv, StepsTyped
<1>8. CallsAreSingle'
  BY <1>5, <1>6, <1>7 DEF CallsAreSingle
<1>9. ReturnsAreDue'
  BY <1>3, <1>4, <1>6 DEF ReturnsAreDue, QueuesFrom, DictationInv
<1> QED
  BY <1>4, <1>6, <1>8, <1>9 DEF DictationInv, DictationTypeOK, RowsAgree, QueuesFrom

LEMMA CompletionKeeps ==
  ASSUME DictationInv, NEW w \in Dictators, completeTranscript(w) PROVE DictationInv'
<1> DEFINE list == IF session.deleting THEN <<"purge", "compensate">> ELSE <<"purge">>
<1>1. CASE HoldsSession(w)
  <2>1. RowsMove
    BY <1>1 DEF DictationInv, HoldsSession, completeTranscript, completeTx, Try, RowsMove,
                DictationTypeOK, RowsAgree, Refunding, TerminalStatuses, transcriptionRows, Ended
  <2>2. \/ GoesTo(w, list) /\ (session.deleting => usageRow' = "refund_pending")
        \/ GoesTo(w, <<"fail">>)
    BY <1>1 DEF completeTranscript, completeTx, Try
  <2>3. /\ list \in Seq(StepNames)
        /\ (session.deleting => usageRow' = "refund_pending") => Harmless(list)
    BY ListNames DEF Harmless, Refunding
  <2> HIDE DEF list
  <2> QED
    BY <2>1, <2>2, <2>3, HarmlessStep, GoesToQueues, ListNames DEF DictationInv, Harmless
<1>2. CASE ~HoldsSession(w)
  BY <1>2, RowsStand, HarmlessStep, GoesToQueues, ListNames
  DEF completeTranscript, DictationInv, Harmless
<1> QED
  BY <1>1, <1>2

LEMMA FailureKeeps ==
  ASSUME DictationInv, NEW w \in Dictators, failAndRefund(w) PROVE DictationInv'
<1> DEFINE goes == HoldsSession(w) /\ usageRow \in {"pending", "provider_admitted"}
<1>1. CASE goes
  <2>1. RowsMove
    BY <1>1 DEF DictationInv, HoldsSession, failAndRefund, Try, RowsMove,
                DictationTypeOK, RowsAgree, Refunding, TerminalStatuses, transcriptionRows, Ended
  <2>2. \/ GoesTo(w, <<"purge", "compensate">>) /\ usageRow' = "refund_pending"
        \/ GoesTo(w, <<>>)
    BY <1>1 DEF failAndRefund, Try
  <2> QED
    BY <2>1, <2>2, HarmlessStep, GoesToQueues, ListNames DEF DictationInv, Harmless, Refunding
<1>2. CASE ~goes
  BY <1>2, RowsStand, HarmlessStep, GoesToQueues, ListNames
  DEF failAndRefund, DictationInv, Harmless
<1> QED
  BY <1>1, <1>2

LEMMA DictationInit == ASSUME TranscriptionInit PROVE DictationInv
<1>1. \A w \in Dictators : steps[w] = <<>>
  BY DEF TranscriptionInit, Dictators
<1>2. StepsTyped
  BY ListNames DEF TranscriptionInit, StepsTyped, Dictators
<1>3. \A w \in Dictators : NamesIn(steps[w]) = {}
  BY <1>1, ListNames
<1>4. DictationTypeOK /\ RowsAgree
  BY DEF TranscriptionInit, DictationTypeOK, RowsAgree, Refunding
<1>5. ReturnsAreDue /\ CallsAreSingle
  <2>1. calls = 0
    BY DEF TranscriptionInit
  <2> QED
    BY <1>3, <2>1 DEF ReturnsAreDue, CallsAreSingle
<1> QED
  BY <1>2, <1>4, <1>5 DEF DictationInv

LEMMA DictationInductive == TranscriptionSpec => []DictationInv
<1>1. TranscriptionInit => DictationInv
  BY DictationInit
<1>2. DictationInv /\ [TranscriptionNext]_transcriptionVars => DictationInv'
  <2> SUFFICES ASSUME DictationInv, [TranscriptionNext]_transcriptionVars PROVE DictationInv'
    OBVIOUS
  <2>1. CASE UNCHANGED transcriptionVars
    <3>1. UNCHANGED transcriptionRows /\ UNCHANGED steps
      BY <2>1 DEF transcriptionVars
    <3> QED
      BY <3>1, RowsStand, HarmlessStep, QueuesStand, OwnerIsDictator
  <2>2. CASE create \/ append \/ finalize \/ TtlPasses \/ ClaimLapses
    BY <2>2, OwnerKeeps
  <2>3. CASE deleteOwned
    BY <2>3, DeletionKeeps
  <2>4. ASSUME NEW w \in Dictators, TranscriptionStep(w) \/ Dies(w)
        PROVE  DictationInv'
    BY <2>4, PurgeKeeps, ReversalKeeps, MarkErrorKeeps, TickKeeps, RecoveryKeeps, RetryKeeps,
       ExpiryKeeps, ClaimKeeps, AdmissionKeeps, CallKeeps, CompletionKeeps, FailureKeeps
    DEF TranscriptionStep
  <2> QED
    BY <2>1, <2>2, <2>3, <2>4 DEF TranscriptionNext, Dictators
<1> QED
  BY <1>1, <1>2, PTL DEF TranscriptionSpec

\* transcription-postgres.ts: "DB checkpoints and private files converge
\* fail-closed."  Whatever the owner and any number of processes do meanwhile,
\* whoever fails or dies: a transcript that can be read is paid for and not to
\* be deleted, money that went back stays back, and the provider is called at
\* most once.
THEOREM TranscriptIsPaidAndWantedThm == TranscriptionSpec => []TranscriptIsPaidAndWanted
<1>1. DictationInv => TranscriptIsPaidAndWanted
  BY DEF DictationInv, RowsAgree, CallsAreSingle, Refunding, TranscriptIsPaidAndWanted
<1> QED
  BY <1>1, DictationInductive, PTL

-----------------------------------------------------------------------------
(* Uploads.                                                                *)

JobStates == {"none", "pending", "claimed", "succeeded", "failed"}

Job == [state : JobStates, attempts : Nat, holder : Replicas \cup {NoHolder}]

CompletionPlaces == {"idle", "loaded", "inspecting", "assembling", "marking", "verifying",
                     "failed", "ended"}

Completion == [at : CompletionPlaces, process : Replicas \cup {NoHolder},
               assembled : BOOLEAN, parts : SUBSET UploadParts]

WorkerPlaces == {"idle", "calling", "marking", "retrying"}

UploadStates == {"none", "initiated", "uploading", "aborted", "expired", "completed"}

ObjectStates == {"none", "pending", "failed", "uploaded", "available", "quarantined"}

UploadRow == [state : UploadStates, object : ObjectStates, parts : SUBSET UploadParts]

StoreRow == [multipart : {"none", "open", "gone"}, parts : SUBSET UploadParts, object : BOOLEAN]

UploadTypeOK ==
  /\ upload \in UploadRow
  /\ authorized \in [UploadParts -> {"none", "declared", "other"}]
  /\ store \in StoreRow
  /\ jobs \in [JobKinds -> Job]
  /\ work \in [Replicas -> [JobKinds -> WorkerPlaces]]
  /\ completion \in [Completions -> Completion]
  /\ mishaps \in Nat

\* The rows of an upload and its object at the provider.
ObjectAgrees ==
  /\ upload.state = "none" => upload.object = "none"
  /\ IsActive => upload.object = "pending"
  /\ IsStopped => upload.object = "failed"
  /\ upload.state = "completed" =>
       upload.object \in {"uploaded", "available", "quarantined"} /\ store.object
  /\ upload.object = "available" => IsHealthy

\* What a completion has read is still so; its claims on the rows hold.
CompletionsAgree ==
  \A r \in Completions :
    /\ completion[r].assembled => upload.state = "completed"
    /\ completion[r].at \notin {"idle", "ended"} => upload.state # "none"
    /\ completion[r].at = "marking" => store.object
    /\ completion[r].at = "verifying" => upload.state = "completed"

\* A cleanup is only enqueued with the stop, and a claim is some replica's.
JobsAgree ==
  /\ jobs["cleanup"].state = "none" \/ IsStopped
  /\ \A k \in JobKinds : jobs[k].state = "claimed" => jobs[k].holder \in Replicas

UploadInv == UploadTypeOK /\ ObjectAgrees /\ CompletionsAgree /\ JobsAgree

\* What a step may do to the rows, as completions and workers see it.
RowsGoOn ==
  /\ upload.state = "completed" => upload'.state = "completed"
  /\ upload.state # "none" => upload'.state # "none"
  /\ store.object => store'.object

LEMMA JobTypes ==
  /\ NoJob \in Job /\ NewJob \in Job /\ JobKinds = {"cleanup", "event"}
  /\ NoJob.state = "none" /\ NewJob.state = "pending"
  /\ \A j \in Job, n \in Replicas :
       /\ ClaimedBy(j, n) \in Job /\ ClaimedBy(j, n).state = "claimed"
       /\ ClaimedBy(j, n).holder = n
       /\ Succeeded(j) \in Job /\ Succeeded(j).state = "succeeded"
       /\ Released(j) \in Job /\ Released(j).state \in {"failed", "pending"}
  /\ \A j \in Job : j.state \in JobStates /\ Released(j) \in Job /\ Released(j).state \in {"failed", "pending"}
<1>1. NoJob \in Job /\ NewJob \in Job /\ NoJob.state = "none" /\ NewJob.state = "pending"
  BY DEF Job, JobStates, NoJob, NewJob
<1>2. ASSUME NEW j \in Job, NEW n \in Replicas
      PROVE  ClaimedBy(j, n) \in Job /\ ClaimedBy(j, n).state = "claimed" /\ ClaimedBy(j, n).holder = n
  BY DEF Job, JobStates, ClaimedBy
<1>3. ASSUME NEW j \in Job
      PROVE  /\ Succeeded(j) \in Job /\ Succeeded(j).state = "succeeded" /\ j.state \in JobStates
  BY DEF Job, JobStates, Succeeded
<1>4. ASSUME NEW j \in Job
      PROVE  Released(j) \in Job /\ Released(j).state \in {"failed", "pending"}
  BY DEF Job, JobStates, Released
<1> QED
  BY <1>1, <1>2, <1>3, <1>4 DEF JobKinds

LEMMA GoOnMoves ==
  ASSUME UploadTypeOK, NEW r \in Completions, NEW place \in CompletionPlaces, GoOn(r, place)
  PROVE  /\ completion' \in [Completions -> Completion]
         /\ \A q \in Completions : q # r => completion'[q] = completion[q]
         /\ completion'[r].at = place /\ completion'[r].assembled = completion[r].assembled
         /\ completion'[r].parts = completion[r].parts
         /\ completion'[r].process = completion[r].process
<1>1. completion' = [completion EXCEPT ![r] = [completion[r] EXCEPT !.at = place]]
  BY DEF GoOn
<1>2. completion[r] \in Completion /\ completion \in [Completions -> Completion]
  BY DEF UploadTypeOK
<1>3. [completion[r] EXCEPT !.at = place] \in Completion
  BY <1>2 DEF Completion
<1> QED
  BY <1>1, <1>2, <1>3 DEF Completion

LEMMA EndKeepsRest ==
  ASSUME NEW c \in Completion
  PROVE  /\ AtEnd(c) \in Completion /\ AtEnd(c).at = "ended"
         /\ AtEnd(c).assembled = c.assembled /\ AtEnd(c).process = c.process
BY DEF AtEnd, Completion, CompletionPlaces

LEMMA EndMoves ==
  ASSUME UploadTypeOK, NEW r \in Completions, EndCompletion(r)
  PROVE  /\ completion' \in [Completions -> Completion]
         /\ \A q \in Completions : q # r => completion'[q] = completion[q]
         /\ completion'[r].at = "ended" /\ completion'[r].assembled = completion[r].assembled
         /\ completion'[r].process = completion[r].process
<1>1. completion' = [completion EXCEPT ![r] = AtEnd(completion[r])]
  BY DEF EndCompletion
<1>2. completion[r] \in Completion /\ completion \in [Completions -> Completion]
  BY DEF UploadTypeOK
<1> QED
  BY <1>1, <1>2, EndKeepsRest

LEMMA CompletionsStand ==
  ASSUME UploadInv, RowsGoOn, UNCHANGED completion
  PROVE  CompletionsAgree'
BY DEF UploadInv, CompletionsAgree, RowsGoOn

\* A completion goes to another place.
LEMMA CompletionsMove ==
  ASSUME UploadInv, RowsGoOn, NEW r \in Completions, NEW place \in CompletionPlaces,
         GoOn(r, place), completion[r].at \notin {"idle", "ended"},
         place = "marking" => store'.object,
         place = "verifying" => upload'.state = "completed"
  PROVE  CompletionsAgree' /\ completion' \in [Completions -> Completion]
<1>1. UploadTypeOK
  BY DEF UploadInv
<1> QED
  BY <1>1, GoOnMoves DEF UploadInv, CompletionsAgree, RowsGoOn

LEMMA CompletionsEnd ==
  ASSUME UploadInv, RowsGoOn, NEW r \in Completions, EndCompletion(r)
  PROVE  CompletionsAgree' /\ completion' \in [Completions -> Completion]
<1>1. UploadTypeOK
  BY DEF UploadInv
<1> QED
  BY <1>1, EndMoves DEF UploadInv, CompletionsAgree, RowsGoOn

-----------------------------------------------------------------------------
(* The session's own steps.                                                *)

LEMMA SessionStep ==
  ASSUME UploadInv, UNCHANGED <<authorized, jobs, work, completion>>, mishaps' \in Nat,
         store' \in StoreRow, store'.object = store.object, upload' \in UploadRow,
         \/ UNCHANGED upload
         \/ /\ upload.state \in {"none", "initiated", "uploading"}
            /\ upload'.state \in {"initiated", "uploading"} /\ upload'.object = "pending"
  PROVE  UploadInv'
<1>1. RowsGoOn
  BY DEF RowsGoOn
<1>2. ObjectAgrees'
  BY DEF UploadInv, ObjectAgrees, IsActive, IsStopped, IsHealthy
<1>3. JobsAgree'
  BY DEF UploadInv, JobsAgree, IsStopped
<1> QED
  BY <1>1, <1>2, <1>3, CompletionsStand DEF UploadInv, UploadTypeOK

LEMMA SessionKeeps ==
  ASSUME UploadInv, createMultipart \/ createUpload \/ ExpiryPasses \/ abortMultipart
  PROVE  UploadInv'
<1>0. UploadTypeOK
  BY DEF UploadInv
<1>1. /\ UNCHANGED <<completion, jobs, authorized, work>>
      /\ \/ UNCHANGED upload
         \/ /\ upload.state = "none"
            /\ upload' = [upload EXCEPT !.state = "initiated", !.object = "pending"]
  BY DEF createMultipart, createUpload, ExpiryPasses, abortMultipart
<1>2. mishaps' \in Nat
  BY <1>0 DEF createMultipart, createUpload, ExpiryPasses, abortMultipart, Mishap, UploadTypeOK
<1>3. store' \in StoreRow /\ store'.object = store.object
  BY <1>0 DEF createMultipart, createUpload, ExpiryPasses, abortMultipart, StoreRow, UploadTypeOK
<1>4. /\ upload' \in UploadRow
      /\ \/ UNCHANGED upload
         \/ upload.state = "none" /\ upload'.state = "initiated" /\ upload'.object = "pending"
  BY <1>0, <1>1 DEF UploadTypeOK, UploadRow, UploadStates, ObjectStates
<1> QED
  BY <1>1, <1>2, <1>3, <1>4, SessionStep

LEMMA PartKeeps ==
  ASSUME UploadInv, NEW p \in UploadParts, putPart(p) \/ addPart(p)
  PROVE  UploadInv'
<1>0. UploadTypeOK /\ ObjectAgrees
  BY DEF UploadInv
<1>1. CASE putPart(p)
  <2>1. /\ UNCHANGED <<upload, completion, jobs, authorized, work, mishaps>>
        /\ store' = [store EXCEPT !.parts = @ \cup {p}]
    BY <1>1 DEF putPart
  <2>2. store' \in StoreRow /\ store'.object = store.object
    BY <1>0, <2>1 DEF UploadTypeOK, StoreRow
  <2> QED
    BY <1>0, <2>1, <2>2, SessionStep DEF UploadTypeOK
<1>2. CASE addPart(p)
  <2>1. /\ UNCHANGED <<store, completion, jobs, authorized, work, mishaps>> /\ IsActive
        /\ upload' = [upload EXCEPT !.parts = @ \cup {p}, !.state = "uploading"]
    BY <1>2 DEF addPart
  <2>2. upload.object = "pending" /\ upload.state \in {"none", "initiated", "uploading"}
    BY <1>0, <2>1 DEF ObjectAgrees, IsActive
  <2>3. upload' \in UploadRow /\ upload'.state = "uploading" /\ upload'.object = "pending"
    BY <1>0, <2>1, <2>2 DEF UploadTypeOK, UploadRow, UploadStates
  <2> QED
    BY <1>0, <2>1, <2>2, <2>3, SessionStep DEF UploadTypeOK
<1> QED
  BY <1>1, <1>2

LEMMA AuthorizationKeeps ==
  ASSUME UploadInv, NEW p \in UploadParts, NEW content \in {"declared", "other"},
         authorizePart(p, content)
  PROVE  UploadInv'
<1>1. UploadTypeOK /\ ObjectAgrees /\ JobsAgree
  BY DEF UploadInv
<1>2. UNCHANGED <<upload, store, completion, jobs, work, mishaps>> /\ IsActive
  BY DEF authorizePart
<1>3. authorized' \in [UploadParts -> {"none", "declared", "other"}]
  BY <1>1 DEF authorizePart, UploadTypeOK
<1>4. RowsGoOn
  BY <1>2 DEF RowsGoOn
<1>5. UploadTypeOK'
  BY <1>1, <1>2, <1>3 DEF UploadTypeOK
<1>6. ObjectAgrees' /\ JobsAgree'
  BY <1>1, <1>2 DEF ObjectAgrees, JobsAgree, IsActive, IsStopped
<1> QED
  BY <1>2, <1>4, <1>5, <1>6, CompletionsStand DEF UploadInv

LEMMA StopKeeps ==
  ASSUME UploadInv, NEW state \in {"aborted", "expired"}, stop(state) PROVE UploadInv'
<1> USE DEF UploadInv
<1>1. /\ UNCHANGED <<authorized, store, completion, work, mishaps>> /\ IsActive
      /\ upload' = [upload EXCEPT !.state = state,
                                  !.object = IF @ = "pending" THEN "failed" ELSE @]
      /\ jobs' = [jobs EXCEPT !["cleanup"] = NewJob]
  BY DEF stop
<1>2. upload'.state = state /\ upload'.object = "failed" /\ upload' \in UploadRow
  BY <1>1 DEF ObjectAgrees, UploadTypeOK, UploadRow, UploadStates, ObjectStates
<1>3. jobs' \in [JobKinds -> Job] /\ JobsAgree'
  BY <1>1, <1>2, JobTypes DEF UploadTypeOK, JobsAgree, IsStopped
<1>4. UploadTypeOK' /\ ObjectAgrees' /\ RowsGoOn
  BY <1>1, <1>2, <1>3 DEF UploadTypeOK, ObjectAgrees, RowsGoOn, IsActive, IsStopped
<1> QED
  BY <1>1, <1>3, <1>4, CompletionsStand

-----------------------------------------------------------------------------
(* Completions.                                                            *)

LEMMA LoadKeeps ==
  ASSUME UploadInv, NEW r \in Completions, NEW n \in Replicas, loadUpload(r, n)
  PROVE  UploadInv'
<1> USE DEF UploadInv
<1> DEFINE new == [at |-> "loaded", process |-> n, assembled |-> upload.state = "completed",
                  parts |-> upload.parts]
<1>1. UNCHANGED <<upload, authorized, store, jobs, work, mishaps>>
  BY DEF loadUpload
<1>2. completion' = [completion EXCEPT ![r] = new] /\ upload.state # "none"
  BY DEF loadUpload, IsActive
<1>3. new \in Completion /\ new.at = "loaded" /\ (new.assembled => upload.state = "completed")
  BY DEF UploadTypeOK, UploadRow, Completion, CompletionPlaces
<1> HIDE DEF new
<1>4. completion' \in [Completions -> Completion] /\ completion'[r] = new
      /\ \A q \in Completions : q # r => completion'[q] = completion[q]
  BY <1>2, <1>3 DEF UploadTypeOK
<1>5. UploadTypeOK' /\ ObjectAgrees' /\ JobsAgree'
  BY <1>1, <1>4 DEF UploadTypeOK, ObjectAgrees, JobsAgree, IsActive, IsStopped, IsHealthy
<1>6. CompletionsAgree'
  BY <1>1, <1>2, <1>3, <1>4 DEF CompletionsAgree
<1> QED
  BY <1>5, <1>6

\* A step of a completion that leaves the rows alone.
LEMMA PlaceKeeps ==
  ASSUME UploadInv, NEW r \in Completions, completion[r].at \notin {"idle", "ended"},
         UNCHANGED <<upload, authorized, store, jobs, work>>, mishaps' \in Nat,
         NEW place \in CompletionPlaces, GoOn(r, place),
         place = "marking" => store.object,
         place = "verifying" => upload.state = "completed"
  PROVE  UploadInv'
<1>1. RowsGoOn
  BY DEF RowsGoOn
<1>2. CompletionsAgree' /\ completion' \in [Completions -> Completion]
  BY <1>1, CompletionsMove
<1> QED
  BY <1>2 DEF UploadInv, UploadTypeOK, ObjectAgrees, JobsAgree, IsActive, IsStopped, IsHealthy

LEMMA EnterKeeps ==
  ASSUME UploadInv, NEW r \in Completions,
         enterCompletion(r) \/ inspectObject(r) \/ throws(r)
  PROVE  UploadInv'
<1>1. completion[r].at \notin {"idle", "ended"} /\ UNCHANGED <<upload, authorized, store, jobs, work>>
  BY DEF enterCompletion, inspectObject, throws
<1>2. mishaps' \in Nat
  BY DEF enterCompletion, inspectObject, throws, CallThrows, Mishap, UploadInv, UploadTypeOK
<1>3. \/ EndCompletion(r)
      \/ \E place \in CompletionPlaces :
           /\ GoOn(r, place)
           /\ place = "marking" => store.object
           /\ place = "verifying" => completion[r].assembled
  BY DEF enterCompletion, inspectObject, throws, CallThrows, CompletionPlaces
<1>4. CASE EndCompletion(r)
  <2>1. RowsGoOn
    BY <1>1 DEF RowsGoOn
  <2>2. CompletionsAgree' /\ completion' \in [Completions -> Completion]
    BY <1>4, <2>1, CompletionsEnd
  <2> QED
    BY <1>1, <1>2, <2>2
    DEF UploadInv, UploadTypeOK, ObjectAgrees, JobsAgree, IsActive, IsStopped, IsHealthy
<1> QED
  BY <1>1, <1>2, <1>3, <1>4, PlaceKeeps DEF UploadInv, CompletionsAgree

LEMMA AssembleKeeps ==
  ASSUME UploadInv, NEW r \in Completions, completeMultipart(r) PROVE UploadInv'
<1>1. completion[r].at = "assembling" /\ UNCHANGED <<upload, authorized, jobs, work>> /\ mishaps' \in Nat
  BY DEF completeMultipart, CallThrows, Mishap, UploadInv, UploadTypeOK
<1>2. \/ /\ UNCHANGED store /\ GoOn(r, "failed")
      \/ /\ store' = [multipart |-> "gone", parts |-> {}, object |-> TRUE]
         /\ GoOn(r, "marking") \/ GoOn(r, "failed")
  BY DEF completeMultipart, CallThrows
<1>3. \/ store'.object
      \/ UNCHANGED store /\ GoOn(r, "failed")
  BY <1>2
<1>a. UploadTypeOK
  BY DEF UploadInv
<1>b. store' \in StoreRow
  <2>1. [multipart |-> "gone", parts |-> {}, object |-> TRUE] \in StoreRow
    BY DEF StoreRow
  <2> QED
    BY <1>2, <1>a, <2>1 DEF UploadTypeOK
<1>4. RowsGoOn /\ store' \in StoreRow
  BY <1>1, <1>3, <1>b DEF RowsGoOn
<1>5. \E place \in {"failed", "marking"} : GoOn(r, place) /\ (place = "marking" => store'.object)
  BY <1>2, <1>3
<1>6. CompletionsAgree' /\ completion' \in [Completions -> Completion]
  BY <1>1, <1>4, <1>5, CompletionsMove DEF CompletionPlaces
<1> QED
  BY <1>1, <1>4, <1>6
  DEF UploadInv, UploadTypeOK, ObjectAgrees, JobsAgree, IsActive, IsStopped, IsHealthy, RowsGoOn

LEMMA MarkAssemblyKeeps ==
  ASSUME UploadInv, NEW r \in Completions, markAssemblyCompleted(r) PROVE UploadInv'
<1> DEFINE place == IF IsStopped THEN "failed" ELSE "verifying"
<1>1. /\ completion[r].at = "marking" /\ UNCHANGED <<authorized, store, jobs, work, mishaps>>
      /\ GoOn(r, place)
  BY DEF markAssemblyCompleted
<1>2. /\ IsActive => upload'.state = "completed" /\ upload'.object = "uploaded"
      /\ ~IsActive => upload' = upload
      /\ upload' \in UploadRow
  BY DEF markAssemblyCompleted, UploadInv, UploadTypeOK, ObjectAgrees, UploadRow, UploadStates, ObjectStates
<1>3. store.object /\ upload.state # "none"
  BY <1>1 DEF UploadInv, CompletionsAgree
<1>4. /\ RowsGoOn /\ (~IsStopped => upload'.state = "completed") /\ place \in CompletionPlaces
      /\ place = "verifying" => ~IsStopped
      /\ place # "marking"
  BY <1>1, <1>2, <1>3 DEF RowsGoOn, IsActive, IsStopped, UploadInv, UploadTypeOK, CompletionPlaces,
                           UploadRow, UploadStates
<1> HIDE DEF place
<1>5. CompletionsAgree' /\ completion' \in [Completions -> Completion]
  BY <1>1, <1>4, CompletionsMove
<1>6. ObjectAgrees' /\ JobsAgree'
  BY <1>1, <1>2, <1>3, JobTypes DEF UploadInv, ObjectAgrees, JobsAgree, IsActive, IsStopped, IsHealthy
<1> QED
  BY <1>1, <1>2, <1>5, <1>6 DEF UploadInv, UploadTypeOK

\* What the verdict and the catch clause may do to the rows.
LEMMA QuarantineEffect ==
  ASSUME UploadInv, quarantine
  PROVE  /\ upload' \in UploadRow
         /\ upload'.state = upload.state /\ upload'.parts = upload.parts
         /\ jobs' \in [JobKinds -> Job] /\ jobs'["cleanup"] = jobs["cleanup"]
         /\ \A k \in JobKinds : jobs[k].state # "none" => jobs'[k] = jobs[k]
         /\ \A k \in JobKinds : jobs'[k] # jobs[k] => jobs'[k] = NewJob
         /\ upload'.object = IF upload.state = "completed" /\ upload.object # "available"
                             THEN "quarantined" ELSE upload.object
BY JobTypes DEF quarantine, UploadInv, UploadTypeOK, UploadRow, ObjectStates

LEMMA VerdictKeeps ==
  ASSUME UploadInv, NEW r \in Completions, verifyUpload(r) \/ catchCompletion(r)
  PROVE  UploadInv'
<1>0. mishaps' \in Nat
  BY DEF verifyUpload, catchCompletion, Mishap, UploadInv, UploadTypeOK
<1>1. UNCHANGED <<authorized, store, work>> /\ EndCompletion(r)
  BY DEF verifyUpload, catchCompletion
<1>2. \/ IsHealthy /\ markAvailable /\ UNCHANGED jobs
      \/ quarantine
      \/ UNCHANGED <<upload, jobs>>
  BY DEF verifyUpload, catchCompletion
<1>3. /\ upload' \in UploadRow
      /\ jobs' \in [JobKinds -> Job]
      /\ upload'.state = upload.state
      /\ jobs'["cleanup"] = jobs["cleanup"]
      /\ \A k \in JobKinds : jobs'[k] # jobs[k] => jobs'[k] = NewJob
      /\ \/ upload'.object = upload.object
         \/ upload'.object = "available" /\ IsHealthy /\ upload.object = "uploaded"
         \/ upload.state = "completed" /\ upload'.object = "quarantined"
  <2>1. CASE IsHealthy /\ markAvailable /\ UNCHANGED jobs
    BY <2>1 DEF markAvailable, UploadInv, UploadTypeOK, UploadRow, ObjectStates
  <2>2. CASE quarantine
    BY <2>2, QuarantineEffect
  <2>3. CASE UNCHANGED <<upload, jobs>>
    BY <2>3 DEF UploadInv, UploadTypeOK
  <2> QED
    BY <1>2, <2>1, <2>2, <2>3
<1>4. RowsGoOn
  BY <1>1, <1>3 DEF RowsGoOn
<1>5. CompletionsAgree' /\ completion' \in [Completions -> Completion]
  BY <1>1, <1>4, CompletionsEnd
<1>6. JobsAgree'
  BY <1>3, JobTypes DEF UploadInv, JobsAgree, IsStopped
<1>7. ObjectAgrees'
  BY <1>1, <1>3 DEF UploadInv, ObjectAgrees, IsActive, IsStopped, IsHealthy
<1> QED
  BY <1>0, <1>1, <1>3, <1>5, <1>6, <1>7 DEF UploadInv, UploadTypeOK

-----------------------------------------------------------------------------
(* The workers.                                                            *)

\* A step of a worker: it rewrites one job, and forgets no stop.
LEMMA WorkKeeps ==
  ASSUME UploadInv, UNCHANGED <<upload, authorized, completion>>,
         store' \in StoreRow, store'.object = store.object, mishaps' \in Nat,
         work' \in [Replicas -> [JobKinds -> WorkerPlaces]],
         NEW k \in JobKinds,
         \/ UNCHANGED jobs
         \/ \E job \in Job : /\ jobs' = [jobs EXCEPT ![k] = job]
                             /\ job.state # "none" /\ jobs[k].state # "none"
                             /\ job.state = "claimed" => job.holder \in Replicas
  PROVE  UploadInv'
<1>1. RowsGoOn
  BY DEF RowsGoOn
<1>2. jobs' \in [JobKinds -> Job] /\ JobsAgree'
  BY JobTypes DEF UploadInv, UploadTypeOK, JobsAgree, IsStopped
<1>3. ObjectAgrees'
  BY DEF UploadInv, ObjectAgrees, IsActive, IsStopped, IsHealthy
<1> QED
  BY <1>1, <1>2, <1>3, CompletionsStand DEF UploadInv, UploadTypeOK

LEMMA WorkerMoves ==
  ASSUME UploadTypeOK, NEW n \in Replicas, NEW k \in JobKinds, NEW place \in WorkerPlaces,
         work' = [work EXCEPT ![n][k] = place]
  PROVE  /\ work' \in [Replicas -> [JobKinds -> WorkerPlaces]]
         /\ work'[n][k] = place
         /\ \A m \in Replicas, i \in JobKinds : m # n \/ i # k => work'[m][i] = work[m][i]
BY DEF UploadTypeOK

LEMMA ClaimDueKeeps ==
  ASSUME UploadInv, NEW n \in Replicas, NEW k \in JobKinds, claimDue(k, n)
  PROVE  UploadInv'
<1> USE DEF UploadInv
<1>1. /\ UNCHANGED <<upload, authorized, completion, store, mishaps>>
      /\ work' = [work EXCEPT ![n][k] = "calling"]
      /\ jobs' = [jobs EXCEPT ![k] = ClaimedBy(jobs[k], n)] /\ jobs[k].state = "pending"
  BY DEF claimDue, IsDue
<1>2. work' \in [Replicas -> [JobKinds -> WorkerPlaces]]
  BY <1>1, WorkerMoves DEF WorkerPlaces
<1>3. jobs[k] \in Job
  BY DEF UploadTypeOK
<1>4. ClaimedBy(jobs[k], n) \in Job /\ ClaimedBy(jobs[k], n).state # "none"
      /\ ClaimedBy(jobs[k], n).holder \in Replicas
  BY <1>3, JobTypes
<1> QED
  BY <1>1, <1>2, <1>4, WorkKeeps DEF UploadTypeOK

LEMMA CallOutKeeps ==
  ASSUME UploadInv, NEW n \in Replicas, NEW k \in JobKinds, NEW effect \in BOOLEAN,
         callOut(k, n, effect)
  PROVE  UploadInv'
<1>0. UploadTypeOK
  BY DEF UploadInv
<1>1. UNCHANGED <<upload, authorized, completion, jobs, mishaps>>
  BY DEF callOut
<1>2. \E answer \in WorkerPlaces : work' = [work EXCEPT ![n][k] = answer]
  BY DEF callOut, WorkerPlaces
<1>3. work' \in [Replicas -> [JobKinds -> WorkerPlaces]]
  BY <1>0, <1>2, WorkerMoves
<1>4. store' = store \/ store' = [store EXCEPT !.multipart = "gone", !.parts = {}]
  BY DEF callOut
<1>5. store' \in StoreRow /\ store'.object = store.object
  BY <1>0, <1>4 DEF UploadTypeOK, StoreRow
<1> QED
  BY <1>0, <1>1, <1>3, <1>5, WorkKeeps DEF UploadTypeOK

LEMMA MarkKeeps ==
  ASSUME UploadInv, NEW n \in Replicas, NEW k \in JobKinds,
         markSucceeded(k, n) \/ retryJob(k, n)
  PROVE  UploadInv'
<1>0. UploadTypeOK /\ jobs[k] \in Job
  BY DEF UploadInv, UploadTypeOK
<1>1. UNCHANGED <<upload, authorized, completion, store>> /\ mishaps' \in Nat
  BY <1>0 DEF markSucceeded, retryJob, Mishap, UploadTypeOK
<1>2. \E place \in WorkerPlaces : work' = [work EXCEPT ![n][k] = place]
  BY DEF markSucceeded, retryJob, WorkerPlaces
<1>3. work' \in [Replicas -> [JobKinds -> WorkerPlaces]]
  BY <1>0, <1>2, WorkerMoves
<1>4. \/ UNCHANGED jobs
      \/ jobs' = [jobs EXCEPT ![k] = IF HoldsClaim(jobs[k], n) THEN Succeeded(jobs[k]) ELSE jobs[k]]
      \/ jobs' = [jobs EXCEPT ![k] = IF HoldsClaim(jobs[k], n) THEN Released(jobs[k]) ELSE jobs[k]]
  BY DEF markSucceeded, retryJob
<1>5. ~HoldsClaim(jobs[k], n) => UNCHANGED jobs
  BY <1>0, <1>4 DEF UploadTypeOK
<1>6. HoldsClaim(jobs[k], n) => jobs[k].state # "none"
  BY DEF HoldsClaim
<1>7. /\ Succeeded(jobs[k]) \in Job /\ Succeeded(jobs[k]).state = "succeeded"
      /\ Released(jobs[k]) \in Job /\ Released(jobs[k]).state \in {"failed", "pending"}
  <2>1. Succeeded(jobs[k]) \in Job /\ Succeeded(jobs[k]).state = "succeeded"
    BY <1>0 DEF Job, JobStates, Succeeded
  <2> QED
    BY <1>0, <2>1, JobTypes
<1> QED
  BY <1>0, <1>1, <1>3, <1>4, <1>5, <1>6, <1>7, WorkKeeps DEF UploadTypeOK

LEMMA LapseKeeps ==
  ASSUME UploadInv, NEW k \in JobKinds, LeaseLapses(k) \/ recoverExpired(k)
  PROVE  UploadInv'
<1>0. UploadTypeOK /\ jobs[k] \in Job
  BY DEF UploadInv, UploadTypeOK
<1>1. UNCHANGED <<upload, authorized, completion, store, work>> /\ mishaps' \in Nat
  BY <1>0 DEF LeaseLapses, recoverExpired, Mishap, UploadTypeOK
<1>2. \/ UNCHANGED jobs
      \/ jobs' = [jobs EXCEPT ![k] = Released(jobs[k])] /\ jobs[k].state = "claimed"
  BY DEF LeaseLapses, recoverExpired
<1>3. Released(jobs[k]) \in Job /\ Released(jobs[k]).state \in {"failed", "pending"}
  BY <1>0, JobTypes
<1> QED
  BY <1>0, <1>1, <1>2, <1>3, WorkKeeps DEF UploadTypeOK

LEMMA CrashKeeps ==
  ASSUME UploadInv, NEW n \in Replicas, CrashReplica(n)
  PROVE  UploadInv'
<1>0. UploadTypeOK
  BY DEF UploadInv
<1>1. UNCHANGED <<upload, authorized, store, jobs>> /\ mishaps' \in Nat
  BY <1>0 DEF CrashReplica, Mishap, UploadTypeOK
<1>2. work' \in [Replicas -> [JobKinds -> WorkerPlaces]]
  BY <1>0 DEF CrashReplica, UploadTypeOK, WorkerPlaces
<1>3. \A r \in Completions : completion[r] \in Completion
  BY <1>0 DEF UploadTypeOK
<1>4. \A r \in Completions : AtEnd(completion[r]) \in Completion
  BY <1>3, EndKeepsRest
<1>5. completion' \in [Completions -> Completion]
  BY <1>3, <1>4 DEF CrashReplica
<1>6. \A r \in Completions :
        completion'[r] = completion[r] \/ completion'[r] = AtEnd(completion[r])
  BY DEF CrashReplica
<1>7. \A r \in Completions :
        /\ completion'[r].assembled = completion[r].assembled
        /\ completion'[r].at \in {completion[r].at, "ended"}
  BY <1>3, <1>6, EndKeepsRest
<1>8. CompletionsAgree'
  BY <1>1, <1>7 DEF UploadInv, CompletionsAgree
<1>9. ObjectAgrees' /\ JobsAgree'
  BY <1>1 DEF UploadInv, ObjectAgrees, JobsAgree, IsActive, IsStopped, IsHealthy
<1> QED
  BY <1>1, <1>2, <1>5, <1>8, <1>9 DEF UploadInv, UploadTypeOK

LEMMA UploadStart == ASSUME UploadInit PROVE UploadInv
<1>1. UploadTypeOK
  BY JobTypes DEF UploadInit, UploadTypeOK, UploadRow, UploadStates, ObjectStates, StoreRow,
                  WorkerPlaces, Completion, CompletionPlaces
<1>2. ObjectAgrees /\ JobsAgree
  BY JobTypes DEF UploadInit, ObjectAgrees, JobsAgree, IsActive, IsStopped
<1>3. CompletionsAgree
  BY DEF UploadInit, CompletionsAgree
<1> QED
  BY <1>1, <1>2, <1>3 DEF UploadInv

LEMMA UploadStands == ASSUME UploadInv, UNCHANGED uploadVars PROVE UploadInv'
BY DEF UploadInv, uploadVars, UploadTypeOK, ObjectAgrees, CompletionsAgree, JobsAgree,
       IsActive, IsStopped, IsHealthy

LEMMA UploadStepKeeps == ASSUME UploadInv, [UploadNext]_uploadVars PROVE UploadInv'
<1>1. CASE UNCHANGED uploadVars
  BY <1>1, UploadStands
<1>2. CASE createMultipart \/ createUpload \/ ExpiryPasses \/ abortMultipart
  BY <1>2, SessionKeeps
<1>3. CASE abort \/ expire
  BY <1>3, StopKeeps DEF abort, expire
<1>4. ASSUME NEW p \in UploadParts,
             \/ putPart(p) \/ addPart(p)
             \/ \E content \in {"declared", "other"} : authorizePart(p, content)
      PROVE  UploadInv'
  BY <1>4, PartKeeps, AuthorizationKeeps
<1>5. ASSUME NEW r \in Completions, complete(r) PROVE UploadInv'
  BY <1>5, LoadKeeps, EnterKeeps, AssembleKeeps, MarkAssemblyKeeps, VerdictKeeps DEF complete
<1>6. "cleanup" \in JobKinds /\ "event" \in JobKinds
  BY JobTypes
<1>7. ASSUME NEW n \in Replicas, cleanupTick(n) \/ policyTick(n) \/ CrashReplica(n)
      PROVE  UploadInv'
  BY <1>6, <1>7, ClaimDueKeeps, MarkKeeps, CallOutKeeps, CrashKeeps DEF cleanupTick, policyTick
<1>8. ASSUME NEW k \in JobKinds, LeaseLapses(k) \/ recoverExpired(k) PROVE UploadInv'
  BY <1>8, LapseKeeps
<1> QED
  BY <1>1, <1>2, <1>3, <1>4, <1>5, <1>7, <1>8 DEF UploadNext

LEMMA UploadInductive == UploadSpec => []UploadInv
<1>1. UploadInit => UploadInv
  BY UploadStart
<1>2. UploadInv /\ [UploadNext]_uploadVars => UploadInv'
  BY UploadStepKeeps
<1> QED
  BY <1>1, <1>2, PTL DEF UploadSpec

-----------------------------------------------------------------------------
(* The lease is a fence.                                                   *)

EndsOwn(k) ==
  jobs[k].state = "claimed" /\ k \notin lapsed /\ jobs'[k] # jobs[k]
    => /\ work[jobs[k].holder][k] \in {"marking", "retrying"}
       /\ work'[jobs[k].holder][k] = "idle"

\* Only the worker that holds the claim ends it.
LEMMA WorkersEndOwn ==
  ASSUME UploadInv, NEW n \in Replicas, NEW i \in JobKinds, NEW k \in JobKinds,
         \/ claimDue(i, n) \/ markSucceeded(i, n) \/ retryJob(i, n)
         \/ \E effect \in BOOLEAN : callOut(i, n, effect)
  PROVE  EndsOwn(k)
<1>0. UploadTypeOK /\ jobs \in [JobKinds -> Job]
  BY DEF UploadInv, UploadTypeOK
<1>1. CASE claimDue(i, n)
  <2>1. jobs' = [jobs EXCEPT ![i] = ClaimedBy(jobs[i], n)] /\ jobs[i].state = "pending"
    BY <1>1 DEF claimDue, IsDue
  <2> QED
    BY <1>0, <2>1 DEF EndsOwn
<1>2. CASE markSucceeded(i, n)
  <2>1. \/ UNCHANGED jobs
        \/ /\ jobs' = [jobs EXCEPT ![i] = IF HoldsClaim(jobs[i], n) THEN Succeeded(jobs[i]) ELSE jobs[i]]
           /\ work' = [work EXCEPT ![n][i] = "idle"] /\ work[n][i] = "marking"
    BY <1>2 DEF markSucceeded
  <2>2. work' = [work EXCEPT ![n][i] = "idle"] => work'[n][i] = "idle"
    BY <1>0, WorkerMoves DEF WorkerPlaces
  <2> QED
    BY <1>0, <2>1, <2>2 DEF EndsOwn, HoldsClaim
<1>3. CASE retryJob(i, n)
  <2>1. \/ UNCHANGED jobs
        \/ /\ jobs' = [jobs EXCEPT ![i] = IF HoldsClaim(jobs[i], n) THEN Released(jobs[i]) ELSE jobs[i]]
           /\ work' = [work EXCEPT ![n][i] = "idle"] /\ work[n][i] = "retrying"
    BY <1>3 DEF retryJob
  <2>2. work' = [work EXCEPT ![n][i] = "idle"] => work'[n][i] = "idle"
    BY <1>0, WorkerMoves DEF WorkerPlaces
  <2> QED
    BY <1>0, <2>1, <2>2 DEF EndsOwn, HoldsClaim
<1>4. CASE \E effect \in BOOLEAN : callOut(i, n, effect)
  BY <1>4 DEF callOut, EndsOwn
<1> QED
  BY <1>1, <1>2, <1>3, <1>4

LEMMA PartsEndNone ==
  ASSUME NEW p \in UploadParts, NEW k \in JobKinds,
         \/ putPart(p) \/ addPart(p)
         \/ \E content \in {"declared", "other"} : authorizePart(p, content)
  PROVE  EndsOwn(k)
BY DEF putPart, addPart, authorizePart, EndsOwn

LEMMA OthersEndNone ==
  ASSUME UploadInv, NEW k \in JobKinds,
         \/ UNCHANGED uploadVars
         \/ createMultipart \/ createUpload \/ ExpiryPasses \/ abortMultipart \/ abort \/ expire
         \/ \E r \in Completions : complete(r)
         \/ \E n \in Replicas : CrashReplica(n)
         \/ \E i \in JobKinds : LeaseLapses(i) \/ recoverExpired(i)
  PROVE  EndsOwn(k)
<1>0. jobs \in [JobKinds -> Job] /\ JobsAgree
  BY DEF UploadInv, UploadTypeOK
<1>1. ASSUME UNCHANGED jobs PROVE EndsOwn(k)
  BY <1>1 DEF EndsOwn
<1>2. CASE UNCHANGED uploadVars \/ createMultipart \/ createUpload \/ ExpiryPasses \/ abortMultipart
  BY <1>1, <1>2 DEF uploadVars, createMultipart, createUpload, ExpiryPasses, abortMultipart
<1>3. CASE abort \/ expire
  <2>1. IsActive /\ jobs' = [jobs EXCEPT !["cleanup"] = NewJob]
    BY <1>3 DEF abort, expire, stop
  <2>2. jobs["cleanup"].state = "none"
    BY <1>0, <2>1 DEF JobsAgree, IsActive, IsStopped
  <2> QED
    BY <1>0, <2>1, <2>2 DEF EndsOwn
<1>5. ASSUME NEW r \in Completions, complete(r) PROVE EndsOwn(k)
  <2>1. CASE \/ \E n \in Replicas : loadUpload(r, n)
             \/ enterCompletion(r) \/ inspectObject(r) \/ completeMultipart(r)
             \/ markAssemblyCompleted(r) \/ throws(r)
    BY <1>1, <2>1 DEF loadUpload, enterCompletion, inspectObject, completeMultipart,
                      markAssemblyCompleted, throws
  <2>2. CASE verifyUpload(r) \/ catchCompletion(r)
    <3>1. UNCHANGED jobs \/ quarantine
      BY <2>2 DEF verifyUpload, catchCompletion
    <3>2. ASSUME quarantine PROVE EndsOwn(k)
      BY <3>2, QuarantineEffect DEF EndsOwn
    <3> QED
      BY <1>1, <3>1, <3>2
  <2> QED
    BY <1>5, <2>1, <2>2 DEF complete
<1>6. ASSUME NEW n \in Replicas, CrashReplica(n) PROVE EndsOwn(k)
  BY <1>1, <1>6 DEF CrashReplica
<1>7. ASSUME NEW i \in JobKinds, LeaseLapses(i) \/ recoverExpired(i) PROVE EndsOwn(k)
  <2>1. \/ UNCHANGED jobs
        \/ i \in lapsed /\ jobs' = [jobs EXCEPT ![i] = Released(jobs[i])]
    BY <1>7 DEF LeaseLapses, recoverExpired
  <2> QED
    BY <1>0, <2>1 DEF EndsOwn
<1> QED
  BY <1>2, <1>3, <1>5, <1>6, <1>7

\* "Lease-fenced": whatever the answers of earlier claims' calls, for any
\* number of processes, a claim whose lease runs is ended by its holder only.
THEOREM ClaimsAreFencedThm == UploadSpec => ClaimsAreFenced
<1>1. ASSUME UploadInv, [UploadNext]_uploadVars, NEW k \in JobKinds
      PROVE  EndsOwn(k)
  <2>1. "cleanup" \in JobKinds /\ "event" \in JobKinds
    BY JobTypes
  <2> QED
    BY <1>1, <2>1, WorkersEndOwn, OthersEndNone, PartsEndNone DEF UploadNext, cleanupTick, policyTick
<1>2. UploadInv /\ [UploadNext]_uploadVars
        => [\A k \in JobKinds :
              jobs[k].state = "claimed" /\ k \notin lapsed /\ jobs'[k] # jobs[k]
                => work[jobs[k].holder][k] \in {"marking", "retrying"}
                   /\ work'[jobs[k].holder][k] = "idle"]_uploadVars
  BY <1>1 DEF EndsOwn
<1> QED
  BY <1>2, UploadInductive, PTL DEF UploadSpec, ClaimsAreFenced

-----------------------------------------------------------------------------
(* Completions that resume.                                                *)

\* A completed upload was recorded by one completion.
RecorderIsKnown == upload.state = "completed" => \E m \in Completions : recorder = {m}

AwaitsVerdict == upload.state = "completed" /\ upload.object = "uploaded"

\* The completion that recorded the assembly, when no call of it threw, is about
\* to give its verdict, or a restart of its process ended it; in that case
\* every completion which that process runs since has found the upload completed.
VerdictIsComing ==
  AwaitsVerdict => \A m \in recorder \ threw :
    \/ completion[m].at = "verifying"
    \/ /\ completion[m].at = "ended"
       /\ \A r \in Completions : Process(r) = Process(m) =>
            completion[r].at \in {"idle", "ended"} \/ completion[r].assembled

\* A completion that found the upload completed fails only when a call throws.
ResumedGoOn ==
  \A r \in Completions : completion[r].assembled =>
    \/ completion[r].at \in {"loaded", "verifying", "ended"}
    \/ completion[r].at = "failed" /\ r \in threw

\* The set of a process holds one completion at a time.
OneInEach ==
  \A q, r \in Completions :
    q # r /\ InCompletions(q) /\ InCompletions(r) => Process(q) # Process(r)

ResumeInv == RecorderIsKnown /\ VerdictIsComing /\ ResumedGoOn /\ OneInEach

\* Completions stand still, and no upload becomes completed.
LEMMA ResumeStands ==
  ASSUME ResumeInv, UNCHANGED <<completion, recorder, threw>>,
         upload'.state = "completed" => upload' = upload
  PROVE  ResumeInv'
<1>1. AwaitsVerdict' => AwaitsVerdict
  BY DEF AwaitsVerdict
<1>2. VerdictIsComing'
  BY <1>1 DEF ResumeInv, VerdictIsComing, Process
<1>3. RecorderIsKnown' /\ ResumedGoOn' /\ OneInEach'
  BY DEF ResumeInv, RecorderIsKnown, ResumedGoOn, OneInEach, InCompletions, Process
<1> QED
  BY <1>2, <1>3 DEF ResumeInv

\* A completion goes on, and the rows stand.
LEMMA ResumeMoves ==
  ASSUME ResumeInv, NEW r \in Completions, UNCHANGED <<upload, recorder>>, threw \subseteq threw',
         \A q \in Completions : q # r => completion'[q] = completion[q],
         completion[r].at \notin {"idle", "ended"}, completion'[r].at \notin {"idle", "loaded"},
         completion'[r].process = completion[r].process,
         completion'[r].assembled = completion[r].assembled,
         completion[r].at = "verifying" => r \in threw',
         InCompletions(r) \/ NoOtherCompletion(r) \/ completion'[r].at = "ended",
         completion[r].assembled =>
           completion'[r].at \in {"verifying", "ended"} \/ (completion'[r].at = "failed" /\ r \in threw')
  PROVE  ResumeInv'
<1>1. RecorderIsKnown'
  BY DEF ResumeInv, RecorderIsKnown
<1>2. VerdictIsComing'
  <2> SUFFICES ASSUME AwaitsVerdict, NEW m \in recorder \ threw', m \in Completions
               PROVE  \/ completion'[m].at = "verifying"
                      \/ /\ completion'[m].at = "ended"
                         /\ \A q \in Completions : Process(q)' = Process(m)' =>
                              completion'[q].at \in {"idle", "ended"} \/ completion'[q].assembled
    BY DEF ResumeInv, RecorderIsKnown, VerdictIsComing, AwaitsVerdict
  <2>1. \/ completion[m].at = "verifying"
        \/ /\ completion[m].at = "ended"
           /\ \A q \in Completions : Process(q) = Process(m) =>
                completion[q].at \in {"idle", "ended"} \/ completion[q].assembled
    BY DEF ResumeInv, VerdictIsComing
  <2>2. m # r
    BY <2>1
  <2> QED
    BY <2>1, <2>2 DEF Process
<1>3. ResumedGoOn'
  BY DEF ResumeInv, ResumedGoOn
<1>4. OneInEach'
  BY DEF ResumeInv, OneInEach, NoOtherCompletion, InCompletions, Process
<1> QED
  BY <1>1, <1>2, <1>3, <1>4 DEF ResumeInv

LEMMA LoadResumes ==
  ASSUME UploadInv, ResumeInv, NEW r \in Completions, NEW n \in Replicas, loadUpload(r, n)
  PROVE  ResumeInv'
<1>1. completion \in [Completions -> Completion]
  BY DEF UploadInv, UploadTypeOK
<1>2. UNCHANGED <<upload, recorder, threw>> /\ completion[r].at = "idle"
  BY DEF loadUpload, blame
<1>3. /\ completion'[r].at = "loaded"
      /\ completion'[r].assembled = (upload.state = "completed")
      /\ \A q \in Completions : q # r => completion'[q] = completion[q]
  BY <1>1 DEF loadUpload
<1>4. RecorderIsKnown' /\ ResumedGoOn' /\ OneInEach'
  BY <1>2, <1>3 DEF ResumeInv, RecorderIsKnown, ResumedGoOn, OneInEach, InCompletions, Process
<1>5. VerdictIsComing'
  <2> SUFFICES ASSUME AwaitsVerdict, NEW m \in recorder \ threw, m \in Completions
               PROVE  \/ completion'[m].at = "verifying"
                      \/ /\ completion'[m].at = "ended"
                         /\ \A q \in Completions : Process(q)' = Process(m)' =>
                              completion'[q].at \in {"idle", "ended"} \/ completion'[q].assembled
    BY <1>2 DEF ResumeInv, RecorderIsKnown, VerdictIsComing, AwaitsVerdict
  <2>1. \/ completion[m].at = "verifying"
        \/ /\ completion[m].at = "ended"
           /\ \A q \in Completions : Process(q) = Process(m) =>
                completion[q].at \in {"idle", "ended"} \/ completion[q].assembled
    BY DEF ResumeInv, VerdictIsComing
  <2>2. m # r /\ completion'[r].assembled
    BY <1>2, <1>3, <2>1 DEF AwaitsVerdict
  <2> QED
    BY <1>3, <2>1, <2>2 DEF Process
<1> QED
  BY <1>4, <1>5 DEF ResumeInv

LEMMA EnterResumes ==
  ASSUME UploadInv, ResumeInv, NEW r \in Completions, enterCompletion(r)
  PROVE  ResumeInv'
<1>0. UploadTypeOK
  BY DEF UploadInv
<1>1. completion[r].at = "loaded" /\ UNCHANGED <<upload, recorder, threw>>
  BY DEF enterCompletion, blame
<1>2. CASE EndCompletion(r)
  BY <1>0, <1>1, <1>2, EndMoves, ResumeMoves
<1>3. CASE NoOtherCompletion(r) /\ ~EndCompletion(r)
  <2>1. PICK place \in {"verifying", "inspecting", "failed"} :
          GoOn(r, place) /\ (completion[r].assembled => place = "verifying")
    BY <1>3 DEF enterCompletion
  <2> QED
    BY <1>0, <1>1, <1>3, <2>1, GoOnMoves, ResumeMoves DEF CompletionPlaces
<1> QED
  BY <1>2, <1>3 DEF enterCompletion

LEMMA CallResumes ==
  ASSUME UploadInv, ResumeInv, NEW r \in Completions,
         inspectObject(r) \/ completeMultipart(r) \/ throws(r)
  PROVE  ResumeInv'
<1>0. UploadTypeOK
  BY DEF UploadInv
<1>1. /\ completion[r].at \in {"inspecting", "assembling", "marking", "verifying"}
      /\ UNCHANGED <<upload, recorder>> /\ InCompletions(r)
  BY DEF inspectObject, completeMultipart, throws, blame, InCompletions
<1>2. PICK place \in {"marking", "assembling", "failed"} :
        /\ GoOn(r, place) /\ threw \subseteq threw'
        /\ completion[r].at = "verifying" => place = "failed" /\ r \in threw'
  BY DEF inspectObject, completeMultipart, throws, CallThrows, blame
<1>3. completion[r].assembled => completion[r].at = "verifying"
  BY <1>1 DEF ResumeInv, ResumedGoOn
<1>4. /\ completion'[r].at = place /\ completion'[r].assembled = completion[r].assembled
      /\ completion'[r].process = completion[r].process
      /\ \A q \in Completions : q # r => completion'[q] = completion[q]
  BY <1>0, <1>2, GoOnMoves DEF CompletionPlaces
<1> QED
  BY <1>1, <1>2, <1>3, <1>4, ResumeMoves

LEMMA MarkResumes ==
  ASSUME UploadInv, ResumeInv, NEW r \in Completions, markAssemblyCompleted(r)
  PROVE  ResumeInv'
<1>0. UploadTypeOK
  BY DEF UploadInv
<1>1. completion[r].at = "marking" /\ UNCHANGED threw /\ InCompletions(r)
  BY DEF markAssemblyCompleted, InCompletions
<1>2. PICK place \in {"verifying", "failed"} : GoOn(r, place) /\ (place = "failed" => IsStopped)
  BY DEF markAssemblyCompleted
<1>3. ~completion[r].assembled
  BY <1>1 DEF ResumeInv, ResumedGoOn
<1>4. /\ completion'[r].at = place /\ completion'[r].assembled = completion[r].assembled
      /\ completion'[r].process = completion[r].process
      /\ \A q \in Completions : q # r => completion'[q] = completion[q]
  BY <1>0, <1>2, GoOnMoves DEF CompletionPlaces
<1>5. CASE ~IsActive
  <2>1. UNCHANGED <<upload, recorder>>
    BY <1>5 DEF markAssemblyCompleted
  <2> QED
    BY <1>1, <1>3, <1>4, <2>1, ResumeMoves
<1>6. CASE IsActive
  <2>1. recorder' = {r} /\ completion'[r].at = "verifying"
    BY <1>2, <1>4, <1>6 DEF markAssemblyCompleted, IsActive, IsStopped
  <2>2. RecorderIsKnown' /\ VerdictIsComing'
    BY <2>1 DEF RecorderIsKnown, VerdictIsComing
  <2>3. ResumedGoOn' /\ OneInEach'
    BY <1>1, <1>3, <1>4 DEF ResumeInv, ResumedGoOn, OneInEach, InCompletions, Process
  <2> QED
    BY <2>2, <2>3 DEF ResumeInv
<1> QED
  BY <1>5, <1>6

LEMMA VerdictResumes ==
  ASSUME UploadInv, ResumeInv, NEW r \in Completions, verifyUpload(r) \/ catchCompletion(r)
  PROVE  ResumeInv'
<1>0. UploadTypeOK /\ CompletionsAgree
  BY DEF UploadInv
<1>1. /\ completion[r].at \in {"verifying", "failed"} /\ EndCompletion(r)
      /\ UNCHANGED recorder /\ threw \subseteq threw' /\ InCompletions(r)
  BY DEF verifyUpload, catchCompletion, blame, InCompletions
<1>2. /\ completion'[r].at = "ended" /\ completion'[r].assembled = completion[r].assembled
      /\ completion'[r].process = completion[r].process
      /\ \A q \in Completions : q # r => completion'[q] = completion[q]
  BY <1>0, <1>1, EndMoves
<1>3. CASE UNCHANGED upload /\ completion[r].at = "failed"
  BY <1>1, <1>2, <1>3, ResumeMoves
<1>4. CASE upload'.state = upload.state /\ ~AwaitsVerdict'
  <2>1. RecorderIsKnown' /\ VerdictIsComing'
    BY <1>1, <1>4 DEF ResumeInv, RecorderIsKnown, VerdictIsComing
  <2>2. ResumedGoOn' /\ OneInEach'
    BY <1>1, <1>2 DEF ResumeInv, ResumedGoOn, OneInEach, InCompletions, Process
  <2> QED
    BY <2>1, <2>2 DEF ResumeInv
<1>5. ASSUME quarantine PROVE upload'.state = upload.state /\ ~AwaitsVerdict'
  BY <1>5, QuarantineEffect DEF AwaitsVerdict
<1>6. ASSUME markAvailable PROVE upload'.state = upload.state /\ ~AwaitsVerdict'
  BY <1>0, <1>6 DEF markAvailable, AwaitsVerdict, UploadTypeOK, UploadRow
<1> QED
  BY <1>3, <1>4, <1>5, <1>6 DEF verifyUpload, catchCompletion

\* A restart ends every completion of the process.
LEMMA CrashResumes ==
  ASSUME UploadInv, ResumeInv, NEW n \in Replicas, CrashReplica(n)
  PROVE  ResumeInv'
<1>1. UNCHANGED <<upload, recorder, threw>>
  BY DEF CrashReplica, blame
<1>2. \A r \in Completions :
        /\ completion[r] \in Completion
        /\ completion'[r] = IF Process(r) = n THEN AtEnd(completion[r]) ELSE completion[r]
  BY DEF CrashReplica, UploadInv, UploadTypeOK
<1>3. \A r \in Completions :
        /\ completion'[r].assembled = completion[r].assembled
        /\ completion'[r].process = completion[r].process
        /\ completion[r].process = n => completion'[r].at = "ended"
        /\ completion[r].process # n => completion'[r].at = completion[r].at
  BY <1>2, EndKeepsRest DEF Process
<1>4. RecorderIsKnown' /\ ResumedGoOn' /\ OneInEach'
  BY <1>1, <1>3 DEF ResumeInv, RecorderIsKnown, ResumedGoOn, OneInEach, InCompletions, Process
<1>5. VerdictIsComing'
  <2> SUFFICES ASSUME AwaitsVerdict, NEW m \in recorder \ threw, m \in Completions
               PROVE  \/ completion'[m].at = "verifying"
                      \/ /\ completion'[m].at = "ended"
                         /\ \A q \in Completions : Process(q)' = Process(m)' =>
                              completion'[q].at \in {"idle", "ended"} \/ completion'[q].assembled
    BY <1>1 DEF ResumeInv, RecorderIsKnown, VerdictIsComing, AwaitsVerdict
  <2>1. \/ completion[m].at = "verifying"
        \/ /\ completion[m].at = "ended"
           /\ \A q \in Completions : Process(q) = Process(m) =>
                completion[q].at \in {"idle", "ended"} \/ completion[q].assembled
    BY DEF ResumeInv, VerdictIsComing
  <2> QED
    BY <1>3, <2>1 DEF Process
<1> QED
  BY <1>4, <1>5 DEF ResumeInv

LEMMA CompletionResumes ==
  ASSUME UploadInv, ResumeInv, NEW r \in Completions, complete(r)
  PROVE  ResumeInv'
BY LoadResumes, EnterResumes, CallResumes, MarkResumes, VerdictResumes DEF complete

LEMMA RowsResume ==
  ASSUME UploadInv, ResumeInv,
         \/ UNCHANGED uploadVars
         \/ createMultipart \/ createUpload \/ ExpiryPasses \/ abortMultipart \/ abort \/ expire
  PROVE  ResumeInv'
<1>0. upload \in UploadRow
  BY DEF UploadInv, UploadTypeOK
<1>1. UNCHANGED <<completion, recorder, threw>>
  BY DEF uploadVars, blame, createMultipart, createUpload, ExpiryPasses, abortMultipart, abort,
         expire, stop
<1>2. upload' = upload \/ upload'.state # "completed"
  BY <1>0 DEF uploadVars, createMultipart, createUpload, ExpiryPasses, abortMultipart, abort,
              expire, stop, UploadRow
<1> QED
  BY <1>1, <1>2, ResumeStands

LEMMA PartsResume ==
  ASSUME UploadInv, ResumeInv, NEW p \in UploadParts,
         \/ putPart(p) \/ addPart(p)
         \/ \E content \in {"declared", "other"} : authorizePart(p, content)
  PROVE  ResumeInv'
<1>0. upload \in UploadRow
  BY DEF UploadInv, UploadTypeOK
<1>1. UNCHANGED <<completion, recorder, threw>>
  BY DEF putPart, addPart, authorizePart, blame
<1>2. upload' = upload \/ upload'.state # "completed"
  BY <1>0 DEF putPart, addPart, authorizePart, UploadRow
<1> QED
  BY <1>1, <1>2, ResumeStands

LEMMA WorkersResume ==
  ASSUME ResumeInv, NEW k \in JobKinds,
         \/ \E n \in Replicas :
              \/ claimDue(k, n) \/ markSucceeded(k, n) \/ retryJob(k, n)
              \/ \E effect \in BOOLEAN : callOut(k, n, effect)
         \/ LeaseLapses(k) \/ recoverExpired(k)
  PROVE  ResumeInv'
<1>1. UNCHANGED <<upload, completion, recorder, threw>>
  BY DEF claimDue, markSucceeded, retryJob, callOut, LeaseLapses, recoverExpired, blame
<1> QED
  BY <1>1, ResumeStands

LEMMA ResumeInductive == UploadSpec => []ResumeInv
<1>1. UploadInit => ResumeInv
  BY DEF UploadInit, ResumeInv, RecorderIsKnown, VerdictIsComing, AwaitsVerdict, ResumedGoOn, OneInEach,
         InCompletions
<1>2. ASSUME UploadInv, ResumeInv, [UploadNext]_uploadVars
      PROVE  ResumeInv'
  <2>1. CASE \/ UNCHANGED uploadVars
             \/ createMultipart \/ createUpload \/ ExpiryPasses \/ abortMultipart \/ abort \/ expire
    BY <1>2, <2>1, RowsResume
  <2>2. ASSUME NEW p \in UploadParts,
               \/ putPart(p) \/ addPart(p)
               \/ \E content \in {"declared", "other"} : authorizePart(p, content)
        PROVE  ResumeInv'
    BY <1>2, <2>2, PartsResume
  <2>3. ASSUME NEW r \in Completions, complete(r) PROVE ResumeInv'
    BY <1>2, <2>3, CompletionResumes
  <2>4. "cleanup" \in JobKinds /\ "event" \in JobKinds
    BY JobTypes
  <2>5. ASSUME NEW n \in Replicas, cleanupTick(n) \/ policyTick(n) \/ CrashReplica(n)
        PROVE  ResumeInv'
    BY <1>2, <2>4, <2>5, WorkersResume, CrashResumes DEF cleanupTick, policyTick
  <2>6. ASSUME NEW k \in JobKinds, LeaseLapses(k) \/ recoverExpired(k)
        PROVE  ResumeInv'
    BY <1>2, <2>6, WorkersResume
  <2> QED
    BY <1>2, <2>1, <2>2, <2>3, <2>5, <2>6 DEF UploadNext
<1>3. UploadInv /\ ResumeInv /\ [UploadNext]_uploadVars => ResumeInv'
  BY <1>2
<1> QED
  BY <1>1, <1>3, UploadInductive, PTL DEF UploadSpec

\* Nothing else is ever served than bytes that are what was declared, whatever
\* processes the completions of an upload run in.
THEOREM OnlyHealthyIsServed ==
  UploadSpec => [](upload.object = "available" => IsHealthy /\ store.object)
<1>1. UploadInv => (upload.object = "available" => IsHealthy /\ store.object)
  BY DEF UploadInv, UploadTypeOK, UploadRow, UploadStates, ObjectAgrees, IsActive, IsStopped
<1> QED
  BY <1>1, UploadInductive, PTL

\* A healthy object that waits for its verdict is refused with an excuse only.
LEMMA CatchIsExcused ==
  ASSUME UploadInv, ResumeInv, NEW r \in Completions, completion[r].at = "failed", AwaitsVerdict
  PROVE  Excused(r)
<1>1. PICK m \in Completions : recorder = {m}
  BY DEF ResumeInv, RecorderIsKnown, AwaitsVerdict
<1>2. CASE m \in threw \/ Process(m) # Process(r)
  BY <1>1, <1>2 DEF Excused
<1>3. CASE m \notin threw /\ Process(m) = Process(r)
  <2>1. completion[m].at # "verifying"
    BY <1>3 DEF ResumeInv, OneInEach, InCompletions
  <2>2. completion[r].assembled
    BY <1>1, <1>3, <2>1 DEF ResumeInv, VerdictIsComing
  <2> QED
    BY <2>2 DEF ResumeInv, ResumedGoOn, Excused
<1> QED
  BY <1>2, <1>3

\* What a completion does to a healthy object.
LEMMA CompletionRefuses ==
  ASSUME UploadInv, ResumeInv, NEW r \in Completions, complete(r)
  PROVE  RefusesExcused
<1>0. upload \in UploadRow /\ ObjectAgrees
  BY DEF UploadInv, UploadTypeOK
<1>1. CASE catchCompletion(r)
  <2> SUFFICES ASSUME upload.object # "quarantined", upload'.object = "quarantined"
               PROVE  Excused(r)
    BY <1>1 DEF RefusesExcused, catchCompletion
  <2>1. quarantine /\ completion[r].at = "failed"
    BY <1>1 DEF catchCompletion
  <2>2. AwaitsVerdict
    BY <1>0, <2>1, QuarantineEffect DEF AwaitsVerdict, ObjectAgrees
  <2> QED
    BY <2>1, <2>2, CatchIsExcused
<1>2. CASE verifyUpload(r)
  BY <1>0, <1>2 DEF verifyUpload, markAvailable, UploadRow, RefusesExcused
<1>3. CASE markAssemblyCompleted(r)
  BY <1>0, <1>3 DEF markAssemblyCompleted, UploadRow, RefusesExcused
<1>4. CASE \/ \E n \in Replicas : loadUpload(r, n)
           \/ enterCompletion(r) \/ inspectObject(r) \/ completeMultipart(r) \/ throws(r)
  BY <1>4 DEF loadUpload, enterCompletion, inspectObject, completeMultipart, throws, RefusesExcused
<1> QED
  BY <1>1, <1>2, <1>3, <1>4 DEF complete

LEMMA PartLeavesObject ==
  ASSUME upload \in UploadRow, NEW p \in UploadParts, addPart(p)
  PROVE  upload'.object = upload.object
<1>1. upload' = [upload EXCEPT !.parts = @ \cup {p}, !.state = "uploading"]
  BY DEF addPart
<1> QED
  BY <1>1 DEF UploadRow

LEMMA OthersRefuseNone ==
  ASSUME UploadInv,
         \/ UNCHANGED uploadVars
         \/ createMultipart \/ createUpload \/ ExpiryPasses \/ abortMultipart \/ abort \/ expire
         \/ \E p \in UploadParts :
              \/ putPart(p) \/ addPart(p)
              \/ \E content \in {"declared", "other"} : authorizePart(p, content)
         \/ \E k \in JobKinds : LeaseLapses(k) \/ recoverExpired(k)
         \/ \E n \in Replicas : CrashReplica(n) \/ cleanupTick(n) \/ policyTick(n)
  PROVE  RefusesExcused
<1>1. upload \in UploadRow
  BY DEF UploadInv, UploadTypeOK
<1>2. ASSUME upload'.object \in {upload.object, "pending", "failed"} PROVE RefusesExcused
  BY <1>2 DEF RefusesExcused
<1>3. CASE \/ UNCHANGED uploadVars
           \/ createMultipart \/ createUpload \/ ExpiryPasses \/ abortMultipart \/ abort \/ expire
  BY <1>1, <1>2, <1>3 DEF uploadVars, createMultipart, createUpload, ExpiryPasses, abortMultipart,
                          abort, expire, stop, UploadRow
<1>4. ASSUME NEW p \in UploadParts,
             \/ putPart(p) \/ addPart(p)
             \/ \E content \in {"declared", "other"} : authorizePart(p, content)
      PROVE  RefusesExcused
  <2>1. CASE putPart(p) \/ \E content \in {"declared", "other"} : authorizePart(p, content)
    BY <1>2, <2>1 DEF putPart, authorizePart
  <2>2. CASE addPart(p)
    BY <1>1, <1>2, <2>2, PartLeavesObject
  <2> QED
    BY <1>4, <2>1, <2>2
<1>5. ASSUME NEW k \in JobKinds, LeaseLapses(k) \/ recoverExpired(k) PROVE RefusesExcused
  BY <1>2, <1>5 DEF LeaseLapses, recoverExpired
<1>6. ASSUME NEW n \in Replicas, CrashReplica(n) \/ cleanupTick(n) \/ policyTick(n)
      PROVE  RefusesExcused
  <2>1. UNCHANGED upload
    BY <1>6 DEF CrashReplica, cleanupTick, policyTick, claimDue, markSucceeded, retryJob, callOut
  <2> QED
    BY <1>2, <2>1
<1> QED
  BY <1>3, <1>4, <1>5, <1>6

\* upload-service.ts: "Backend failures before durable byte completion remain
\* resumable."  For any number of requests, processes and restarts, whatever is
\* served is what was declared, and an object that is what was declared is
\* refused only by a completion one call of which threw, or one call of the
\* completion that recorded the assembly, or which runs in another process.
THEOREM HealthyIsServedThm == UploadSpec => HealthyIsServed
<1>1. ASSUME UploadInv, ResumeInv, [UploadNext]_uploadVars
      PROVE  RefusesExcused
  BY <1>1, CompletionRefuses, OthersRefuseNone DEF UploadNext
<1>2. UploadInv /\ ResumeInv /\ [UploadNext]_uploadVars => [RefusesExcused]_uploadVars
  BY <1>1
<1> QED
  BY <1>2, UploadInductive, ResumeInductive, OnlyHealthyIsServed, PTL DEF UploadSpec, HealthyIsServed

-----------------------------------------------------------------------------
(* Agent runtimes.                                                         *)

SyncWork == {"save", "claim", "persona", "model", "skills", "tools", "finish", "failed"}

BuildWork == {"register", "install", "equip", "ready"}

Stages == SyncWork \cup BuildWork \cup {"idle", "lock", "wait", "giveUp"}

\* The parts that a synchronization has published, and a build has written.
Rendered(s) ==
  {part \in Parts : \/ s \in {"model", "skills", "tools", "finish"} /\ part = "persona"
                    \/ s \in {"skills", "tools", "finish"} /\ part = "model"
                    \/ s \in {"tools", "finish"} /\ part = "skills"
                    \/ s = "finish"}

Written(s) ==
  {part \in Parts : \/ s \in {"install", "equip", "ready"} /\ part \in {"persona", "model"}
                    \/ s \in {"equip", "ready"} /\ part = "skills"
                    \/ s = "ready"}

AgentRow ==
  [status : {"provisioning", "ready", "failed"}, version : 0..MaxRevision, synced : Nat,
   token : RuntimeActors \cup {NoHolder}, leased : BOOLEAN]

BuildRow == [state : JobStates, attempts : Nat, holder : RuntimeActors \cup {NoHolder}]

RuntimeTypeOK ==
  /\ agent \in AgentRow
  /\ build \in BuildRow
  /\ runtime \in [Parts -> NotYet..Unsaved]
  /\ stage \in [RuntimeActors -> Stages]
  /\ rev \in [RuntimeActors -> 0..MaxRevision]

\* Only what was rendered is recorded, and a build that has ended is over.
AgentAgrees ==
  /\ agent.synced <= agent.version
  /\ agent.status # "ready" => agent.synced = 0
  /\ agent.status = "ready" => build.state = "succeeded"

\* An actor that works holds its lock; what it renders is no older than what is
\* recorded, and what it has rendered stays.
ActorAgrees(p) ==
  /\ stage[p] \in SyncWork => runtimeLock = p
  /\ stage[p] \in BuildWork => buildLock = p /\ agent.status # "ready"
  /\ stage[p] = "save" => p \in Requesters /\ agent.version < MaxRevision
  /\ stage[p] \in Parts \cup {"finish"} =>
       /\ agent.status = "ready"
       /\ agent.synced <= rev[p] /\ rev[p] <= agent.version
       /\ \A part \in Rendered(stage[p]) : runtime[part] >= rev[p]
  /\ \A part \in Written(stage[p]) : runtime[part] >= 0

RuntimeInv ==
  /\ RuntimeTypeOK /\ AgentAgrees /\ RuntimeIsCurrent
  /\ \A p \in RuntimeActors : ActorAgrees(p)

LEMMA RuntimeFacts ==
  ASSUME RuntimeInv
  PROVE  /\ RuntimeTypeOK /\ AgentAgrees /\ RuntimeIsCurrent
         /\ agent \in AgentRow /\ agent.version \in 0..MaxRevision /\ agent.synced \in Nat
         /\ agent.status \in {"provisioning", "ready", "failed"}
         /\ build \in BuildRow /\ MaxRevision \in Nat
         /\ runtime \in [Parts -> NotYet..Unsaved] /\ \A part \in Parts : runtime[part] \in Int
         /\ rev \in [RuntimeActors -> 0..MaxRevision]
         /\ stage \in [RuntimeActors -> Stages]
         /\ \A q \in RuntimeActors : ActorAgrees(q)
BY RuntimesAssumption DEF RuntimeInv, RuntimeTypeOK, AgentRow, NotYet, Unsaved

LEMMA ActorFacts ==
  /\ Syncers \subseteq RuntimeActors /\ Builders \subseteq RuntimeActors
  /\ Requesters \subseteq Syncers /\ Schedulers \subseteq Syncers
  /\ NoHolder \notin RuntimeActors /\ MaxRevision \in Nat
  /\ Parts = {"persona", "model", "skills", "tools"}
  /\ \A s \in Stages \ BuildWork : Written(s) = {}
BY RuntimesAssumption DEF Syncers, RuntimeActors, Parts, Written, BuildWork

\* The two locks keep the workers apart.
LEMMA AloneAtWork ==
  ASSUME RuntimeInv, NEW p \in RuntimeActors
  PROVE  /\ stage[p] \in SyncWork =>
              runtimeLock = p /\ \A q \in RuntimeActors \ {p} : stage[q] \notin SyncWork
         /\ stage[p] \in BuildWork =>
              buildLock = p /\ \A q \in RuntimeActors \ {p} : stage[q] \notin BuildWork
         /\ IsFree(runtimeLock) => \A q \in RuntimeActors : stage[q] \notin SyncWork
         /\ IsFree(buildLock) => \A q \in RuntimeActors : stage[q] \notin BuildWork
BY RuntimeFacts, ActorFacts DEF ActorAgrees, IsFree

LEMMA ActorStays ==
  ASSUME RuntimeInv, NEW q \in RuntimeActors, stage'[q] = stage[q], rev'[q] = rev[q],
         agent' \in AgentRow, runtime' \in [Parts -> NotYet..Unsaved],
         agent'.version >= agent.version,
         agent.status = "ready" => agent'.status = "ready",
         \A part \in Parts : runtime'[part] >= 0 \/ runtime'[part] = runtime[part],
         stage[q] \in SyncWork => runtimeLock' = runtimeLock,
         stage[q] = "save" => agent'.version = agent.version,
         stage[q] \in Parts \cup {"finish"} =>
           agent'.synced = agent.synced /\ runtime' = runtime,
         stage[q] \in BuildWork => buildLock' = buildLock /\ agent'.status # "ready"
  PROVE  ActorAgrees(q)'
<1>1. ActorAgrees(q) /\ rev[q] \in Int /\ agent.version \in Int /\ agent'.version \in Int
  BY RuntimeFacts DEF AgentRow
<1>2. Parts \cup {"finish"} \subseteq SyncWork
  BY ActorFacts DEF SyncWork
<1>3. Rendered(stage'[q]) = Rendered(stage[q]) /\ Written(stage'[q]) = Written(stage[q])
  OBVIOUS
<1>4. Rendered(stage[q]) \subseteq Parts /\ Written(stage[q]) \subseteq Parts
  BY DEF Rendered, Written
<1>5. \A part \in Written(stage'[q]) : runtime'[part] >= 0
  BY <1>1, <1>3, <1>4 DEF ActorAgrees
<1>6. stage[q] \in Parts \cup {"finish"} =>
        /\ agent'.status = "ready"
        /\ agent'.synced <= rev'[q] /\ rev'[q] <= agent'.version
        /\ \A part \in Rendered(stage'[q]) : runtime'[part] >= rev'[q]
  BY <1>1, <1>3 DEF ActorAgrees
<1>7. /\ stage[q] \in SyncWork => runtimeLock' = q
      /\ stage[q] \in BuildWork => buildLock' = q /\ agent'.status # "ready"
      /\ stage[q] = "save" => q \in Requesters /\ agent'.version < MaxRevision
  BY <1>1 DEF ActorAgrees, SyncWork
<1> QED
  BY <1>5, <1>6, <1>7 DEF ActorAgrees

LEMMA RuntimeStep ==
  ASSUME RuntimeInv, NEW p \in RuntimeActors, NEW s \in Stages, Go(p, s),
         rev' \in [RuntimeActors -> 0..MaxRevision],
         \A q \in RuntimeActors \ {p} : rev'[q] = rev[q],
         agent' \in AgentRow, build' \in BuildRow, runtime' \in [Parts -> NotYet..Unsaved],
         agent'.version >= agent.version,
         agent.status = "ready" => agent'.status = "ready",
         \A part \in Parts : runtime'[part] >= 0 \/ runtime'[part] = runtime[part],
         \A q \in RuntimeActors \ {p} :
           /\ stage[q] \in SyncWork => runtimeLock' = runtimeLock
           /\ stage[q] = "save" => agent'.version = agent.version
           /\ stage[q] \in Parts \cup {"finish"} =>
                agent'.synced = agent.synced /\ runtime' = runtime
           /\ stage[q] \in BuildWork => buildLock' = buildLock /\ agent'.status # "ready",
         AgentAgrees', RuntimeIsCurrent', stage'[p] = s => ActorAgrees(p)'
  PROVE  RuntimeInv'
<1>1. stage \in [RuntimeActors -> Stages]
  BY RuntimeFacts
<1>2. /\ stage' \in [RuntimeActors -> Stages] /\ stage'[p] = s
      /\ \A q \in RuntimeActors \ {p} : stage'[q] = stage[q]
  BY <1>1 DEF Go
<1>3. \A q \in RuntimeActors \ {p} : ActorAgrees(q)'
  BY <1>2, ActorStays
<1>4. RuntimeTypeOK'
  BY <1>2 DEF RuntimeTypeOK
<1> QED
  BY <1>2, <1>3, <1>4 DEF RuntimeInv

\* An actor that does nothing, or waits.
LEMMA AtRest ==
  ASSUME NEW p, stage'[p] \in {"idle", "lock", "wait", "giveUp"} PROVE ActorAgrees(p)'
BY ActorFacts DEF ActorAgrees, SyncWork, BuildWork, Written

-----------------------------------------------------------------------------
(* Requests and synchronizations.                                          *)

LEMMA EditKeeps ==
  ASSUME RuntimeInv, NEW p \in Syncers, editAgent(p) PROVE RuntimeInv'
<1> USE RuntimeFacts
<1>1. p \in RuntimeActors
  BY ActorFacts
<1>2. /\ UNCHANGED <<build, runtime, buildLock, runtimeLock, rev>> /\ ~SaveIsOpen
      /\ agent' = [agent EXCEPT !.version = @ + 1, !.leased = FALSE]
      /\ agent.version < MaxRevision
      /\ \E s \in {"lock", "idle"} : Go(p, s)
  BY DEF editAgent, runtimeLocks
<1>a. agent.version + 1 \in 0..MaxRevision
  BY <1>2
<1>3. /\ agent' \in AgentRow /\ agent'.version = agent.version + 1
      /\ agent'.status = agent.status /\ agent'.synced = agent.synced
  BY <1>2, <1>a DEF AgentRow
<1>4. \A q \in RuntimeActors : stage[q] # "save"
  BY <1>2 DEF SaveIsOpen, AtStage, ActorAgrees
<1>5. AgentAgrees' /\ RuntimeIsCurrent'
  BY <1>2, <1>3 DEF AgentAgrees, RuntimeIsCurrent
<1>6. \A q \in RuntimeActors : stage[q] \in BuildWork => agent.status # "ready"
  BY DEF ActorAgrees
<1> QED
  BY <1>1, <1>2, <1>3, <1>4, <1>5, <1>6, RuntimeStep, AtRest DEF Stages

LEMMA BeginSaveKeeps ==
  ASSUME RuntimeInv, NEW p \in Syncers, beginSave(p) PROVE RuntimeInv'
<1> USE RuntimeFacts
<1>1. p \in RuntimeActors
  BY ActorFacts
<1>2. /\ UNCHANGED <<agent, build, buildLock, rev>> /\ p \in Requesters
      /\ agent.version < MaxRevision /\ agent.status = "ready" /\ IsFree(runtimeLock)
      /\ runtime' = [runtime EXCEPT !.persona = Unsaved] /\ Go(p, "save") /\ runtimeLock' = p
  BY DEF beginSave, runtimeRows
<1>3. \A q \in RuntimeActors : stage[q] \notin SyncWork
  BY <1>1, <1>2, AloneAtWork
<1>4. /\ runtime' \in [Parts -> NotYet..Unsaved]
      /\ \A part \in Parts : runtime'[part] = runtime[part] \/ runtime'[part] = MaxRevision + 1
  BY <1>2 DEF NotYet, Unsaved, Parts
<1>5. AgentAgrees'
  BY <1>2 DEF AgentAgrees
<1>6. RuntimeIsCurrent'
  BY <1>2, <1>4 DEF RuntimeIsCurrent, AgentAgrees
<1>7. \A q \in RuntimeActors : stage[q] \in BuildWork => agent.status # "ready"
  BY DEF ActorAgrees
<1>8. stage'[p] = "save" => ActorAgrees(p)'
  BY <1>2, ActorFacts DEF ActorAgrees, BuildWork, Written
<1> QED
  BY <1>1, <1>2, <1>3, <1>4, <1>5, <1>6, <1>7, <1>8, RuntimeStep DEF Stages, SyncWork, Parts

LEMMA CommitSaveKeeps ==
  ASSUME RuntimeInv, NEW p \in Syncers, commitSave(p) PROVE RuntimeInv'
<1> USE RuntimeFacts
<1>1. p \in RuntimeActors
  BY ActorFacts
<1>2. /\ UNCHANGED <<build, buildLock, rev>> /\ Go(p, "idle") /\ stage[p] = "save"
      /\ \/ /\ agent' = [agent EXCEPT !.version = @ + 1]
            /\ runtime' = [runtime EXCEPT !.persona = agent.version + 1]
         \/ UNCHANGED <<agent, runtime>>
  BY DEF commitSave, AtStage, Leave
<1>3. agent.version < MaxRevision /\ \A q \in RuntimeActors \ {p} : stage[q] \notin SyncWork
  BY <1>1, <1>2, AloneAtWork DEF ActorAgrees, SyncWork
<1>4. \A q \in RuntimeActors : stage[q] \in BuildWork => agent.status # "ready"
  BY DEF ActorAgrees
<1>a. agent.version + 1 \in 0..MaxRevision
  BY <1>3
<1>5. /\ agent' \in AgentRow /\ agent'.version \in {agent.version, agent.version + 1}
      /\ agent'.status = agent.status /\ agent'.synced = agent.synced
  BY <1>2, <1>a DEF AgentRow
<1>b. agent'.version >= agent.version
  BY <1>5
<1>6. /\ runtime' \in [Parts -> NotYet..Unsaved]
      /\ \A part \in Parts : runtime'[part] = runtime[part] \/ runtime'[part] = agent.version + 1
  BY <1>2, <1>3 DEF NotYet, Unsaved, Parts
<1>7. AgentAgrees'
  BY <1>2, <1>5 DEF AgentAgrees
<1>8. RuntimeIsCurrent'
  BY <1>5, <1>6 DEF RuntimeIsCurrent, AgentAgrees
<1> QED
  BY <1>1, <1>2, <1>3, <1>4, <1>5, <1>b, <1>6, <1>7, <1>8, RuntimeStep, AtRest DEF Stages, SyncWork, Parts

LEMMA RetryProvisionKeeps ==
  ASSUME RuntimeInv, NEW p \in Syncers, retryProvision(p) PROVE RuntimeInv'
<1> USE RuntimeFacts
<1>1. /\ UNCHANGED <<runtime, runtimeLock, buildLock, stage, rev>> /\ build' = NewJob
      /\ agent.status = "failed" /\ agent' = [agent EXCEPT !.status = "provisioning"]
  BY DEF retryProvision, runtimeLocks
<1>2. /\ agent' \in AgentRow /\ agent'.version = agent.version
      /\ agent'.status = "provisioning" /\ agent'.synced = agent.synced
  BY <1>1 DEF AgentRow
<1>3. build' \in BuildRow
  BY <1>1 DEF BuildRow, NewJob, JobStates
<1>4. \A q \in RuntimeActors : ActorAgrees(q)'
  BY <1>1, <1>2, ActorStays
<1>5. AgentAgrees' /\ RuntimeIsCurrent'
  BY <1>1, <1>2 DEF AgentAgrees, RuntimeIsCurrent
<1> QED
  BY <1>1, <1>2, <1>3, <1>4, <1>5 DEF RuntimeInv, RuntimeTypeOK

LEMMA LockKeeps ==
  ASSUME RuntimeInv, NEW p \in Syncers, scheduleSync(p) \/ lockRuntime(p) PROVE RuntimeInv'
<1> USE RuntimeFacts
<1>1. p \in RuntimeActors
  BY ActorFacts
<1>2. UNCHANGED <<agent, build, runtime, buildLock, rev>>
  BY DEF scheduleSync, lockRuntime, runtimeRows, runtimeLocks
<1>3. \/ UNCHANGED runtimeLock /\ Go(p, "lock")
      \/ UNCHANGED runtimeLock /\ Go(p, "idle")
      \/ IsFree(runtimeLock) /\ runtimeLock' = p /\ Go(p, "claim")
  BY DEF scheduleSync, lockRuntime, runtimeLocks
<1>4. AgentAgrees' /\ RuntimeIsCurrent'
  BY <1>2 DEF AgentAgrees, RuntimeIsCurrent
<1>5. \A q \in RuntimeActors : stage[q] \in BuildWork => agent.status # "ready"
  BY DEF ActorAgrees
<1>6. CASE UNCHANGED runtimeLock /\ (Go(p, "lock") \/ Go(p, "idle"))
  BY <1>1, <1>2, <1>4, <1>5, <1>6, RuntimeStep, AtRest DEF Stages
<1>7. CASE IsFree(runtimeLock) /\ runtimeLock' = p /\ Go(p, "claim")
  <2>1. \A q \in RuntimeActors : stage[q] \notin SyncWork
    BY <1>1, <1>7, AloneAtWork
  <2>2. stage'[p] = "claim" => ActorAgrees(p)'
    BY <1>7, ActorFacts DEF ActorAgrees, BuildWork, Written
  <2> QED
    BY <1>1, <1>2, <1>4, <1>5, <1>7, <2>1, <2>2, RuntimeStep DEF Stages, SyncWork, Parts
<1> QED
  BY <1>3, <1>6, <1>7

LEMMA ClaimSyncKeeps ==
  ASSUME RuntimeInv, NEW p \in Syncers, claimAgentRuntimeSync(p) PROVE RuntimeInv'
<1> USE RuntimeFacts
<1>1. p \in RuntimeActors /\ stage[p] = "claim"
  BY ActorFacts DEF claimAgentRuntimeSync, AtStage
<1>2. UNCHANGED <<build, runtime, buildLock>>
  BY DEF claimAgentRuntimeSync, RowTx, runtimeRows
<1>3. \/ UNCHANGED agent
      \/ agent' = Postponed
      \/ agent' = [agent EXCEPT !.token = p, !.leased = TRUE]
  BY DEF claimAgentRuntimeSync, RowTx, runtimeRows
<1>4. /\ agent' \in AgentRow /\ agent'.version = agent.version
      /\ agent'.status = agent.status /\ agent'.synced = agent.synced
  BY <1>1, <1>3 DEF AgentRow, Postponed
<1>5. \/ Leave(p)
      \/ /\ rev' = [rev EXCEPT ![p] = agent.version] /\ Go(p, "persona") /\ UNCHANGED runtimeLock
         /\ agent.status = "ready"
  BY DEF claimAgentRuntimeSync, RowTx
<1>6. runtimeLock = p /\ \A q \in RuntimeActors \ {p} : stage[q] \notin SyncWork
  BY <1>1, AloneAtWork DEF SyncWork
<1>7. \A q \in RuntimeActors : stage[q] \in BuildWork => agent.status # "ready"
  BY DEF ActorAgrees
<1>8. AgentAgrees' /\ RuntimeIsCurrent'
  BY <1>2, <1>4 DEF AgentAgrees, RuntimeIsCurrent
<1>9. CASE Leave(p)
  <2>1. Go(p, "idle") /\ UNCHANGED rev
    BY <1>9 DEF Leave
  <2> QED
    BY <1>1, <1>2, <1>4, <1>6, <1>7, <1>8, <2>1, RuntimeStep, AtRest DEF Stages, SyncWork, Parts
<1>10. CASE /\ rev' = [rev EXCEPT ![p] = agent.version] /\ Go(p, "persona")
            /\ UNCHANGED runtimeLock /\ agent.status = "ready"
  <2>1. /\ rev' \in [RuntimeActors -> 0..MaxRevision] /\ rev'[p] = agent.version
        /\ \A q \in RuntimeActors \ {p} : rev'[q] = rev[q]
    BY <1>1, <1>10
  <2>2. agent.synced <= agent.version
    BY DEF AgentAgrees
  <2>3. stage'[p] = "persona" => ActorAgrees(p)'
    BY <1>4, <1>6, <1>10, <2>1, <2>2 DEF ActorAgrees, BuildWork, Written, Rendered, Parts
  <2> QED
    BY <1>1, <1>2, <1>4, <1>6, <1>7, <1>8, <1>10, <2>1, <2>3, RuntimeStep DEF Stages, SyncWork, Parts
<1> QED
  BY <1>5, <1>9, <1>10

LEMMA NextStages ==
  /\ NextStage["persona"] = "model" /\ NextStage["model"] = "skills"
  /\ NextStage["skills"] = "tools" /\ NextStage["tools"] = "finish"
BY DEF NextStage

LEMMA PublishKeeps ==
  ASSUME RuntimeInv, NEW p \in Syncers, publish(p) PROVE RuntimeInv'
<1> USE RuntimeFacts
<1> DEFINE part == stage[p]
           shown == IF part = "skills" THEN agent.version ELSE rev[p]
<1>1. p \in RuntimeActors /\ part \in Parts
  BY ActorFacts DEF publish
<1>2. UNCHANGED <<agent, build, buildLock, runtimeLock, rev>>
  BY DEF publish, runtimeRows, runtimeLocks
<1>3. \/ runtime' = [runtime EXCEPT ![part] = shown] /\ Go(p, NextStage[part])
      \/ /\ Go(p, "failed")
         /\ runtime' = runtime \/ runtime' = [runtime EXCEPT ![part] = shown]
  BY DEF publish, Writes
<1>4. runtimeLock = p /\ \A q \in RuntimeActors \ {p} : stage[q] \notin SyncWork
  BY <1>1, AloneAtWork, ActorFacts DEF SyncWork
<1>5. /\ agent.status = "ready" /\ agent.synced <= rev[p] /\ rev[p] <= agent.version
      /\ \A x \in Rendered(part) : runtime[x] >= rev[p]
      /\ rev[p] \in 0..MaxRevision
  BY <1>1 DEF ActorAgrees
<1>6. shown \in 0..MaxRevision /\ shown >= rev[p] /\ shown >= agent.synced
  BY <1>5
<1> HIDE DEF shown
<1>7. /\ runtime' \in [Parts -> NotYet..Unsaved]
      /\ \A x \in Parts : runtime'[x] = runtime[x] \/ runtime'[x] = shown
      /\ Go(p, "failed") \/ runtime'[part] = shown
  BY <1>1, <1>3, <1>6 DEF NotYet, Unsaved
<1>8. \A q \in RuntimeActors : stage[q] \in BuildWork => agent.status # "ready"
  BY DEF ActorAgrees
<1>9. AgentAgrees'
  BY <1>2 DEF AgentAgrees
<1>10. RuntimeIsCurrent'
  BY <1>2, <1>5, <1>6, <1>7 DEF RuntimeIsCurrent
<1>11. CASE Go(p, "failed")
  <2>1. stage'[p] = "failed" => ActorAgrees(p)'
    BY <1>2, <1>4, ActorFacts DEF ActorAgrees, BuildWork, Written
  <2> QED
    BY <1>1, <1>2, <1>4, <1>5, <1>6, <1>7, <1>8, <1>9, <1>10, <1>11, <2>1, RuntimeStep
    DEF Stages, SyncWork, Parts
<1>12. CASE /\ runtime' = [runtime EXCEPT ![part] = shown] /\ Go(p, NextStage[part])
  <2>1. /\ NextStage[part] \in {"model", "skills", "tools", "finish"}
        /\ \A x \in Rendered(NextStage[part]) : x = part \/ x \in Rendered(part)
    BY <1>1, NextStages DEF Rendered, Parts
  <2>2. \A x \in Rendered(NextStage[part]) : runtime'[x] >= rev[p]
    BY <1>1, <1>5, <1>6, <1>12, <2>1 DEF Rendered
  <2>3. stage'[p] = NextStage[part] => ActorAgrees(p)'
    BY <1>2, <1>4, <1>5, <2>1, <2>2, ActorFacts DEF ActorAgrees, BuildWork, Written
  <2>4. NextStage[part] \in Stages
    BY <2>1 DEF Stages, SyncWork
  <2> QED
    BY <1>1, <1>2, <1>4, <1>5, <1>6, <1>7, <1>8, <1>9, <1>10, <1>12, <2>3, <2>4, RuntimeStep
    DEF SyncWork, Parts
<1> QED
  BY <1>3, <1>11, <1>12

LEMMA FinishSyncKeeps ==
  ASSUME RuntimeInv, NEW p \in Syncers, finishRuntimeSync(p) PROVE RuntimeInv'
<1> USE RuntimeFacts
<1>1. p \in RuntimeActors /\ stage[p] = "finish"
  BY ActorFacts DEF finishRuntimeSync, AtStage
<1>2. UNCHANGED <<build, runtime, buildLock, rev>>
  BY DEF finishRuntimeSync, RowTx, runtimeRows, Leave
<1>3. \/ UNCHANGED agent
      \/ agent' = [agent EXCEPT !.synced = IF @ < rev[p] THEN rev[p] ELSE @,
                              !.token = NoHolder, !.leased = FALSE]
  BY DEF finishRuntimeSync, RowTx, runtimeRows, RenderedRevision
<1>4. /\ agent.status = "ready" /\ agent.synced <= rev[p] /\ rev[p] <= agent.version
      /\ \A x \in Parts : runtime[x] >= rev[p]
      /\ rev[p] \in 0..MaxRevision
  BY <1>1 DEF ActorAgrees, Rendered
<1>5. /\ agent' \in AgentRow /\ agent'.version = agent.version
      /\ agent'.status = agent.status /\ agent'.synced \in {agent.synced, rev[p]}
  <2> DEFINE new == IF agent.synced < rev[p] THEN rev[p] ELSE agent.synced
  <2>1. new \in Nat /\ new \in {agent.synced, rev[p]}
    BY <1>4
  <2>2. \/ UNCHANGED agent
        \/ agent' = [agent EXCEPT !.synced = new, !.token = NoHolder, !.leased = FALSE]
    BY <1>3
  <2> HIDE DEF new
  <2> QED
    BY <2>1, <2>2 DEF AgentRow
<1>6. runtimeLock = p /\ \A q \in RuntimeActors \ {p} : stage[q] \notin SyncWork
  BY <1>1, AloneAtWork DEF SyncWork
<1>7. \A q \in RuntimeActors : stage[q] \in BuildWork => agent.status # "ready"
  BY DEF ActorAgrees
<1>8. AgentAgrees' /\ RuntimeIsCurrent'
  BY <1>2, <1>4, <1>5 DEF AgentAgrees, RuntimeIsCurrent
<1>9. \/ Go(p, "idle")
      \/ Go(p, "claim") /\ UNCHANGED runtimeLock
      \/ Go(p, "failed") /\ UNCHANGED runtimeLock
  BY DEF finishRuntimeSync, RowTx, Leave
<1>10. ASSUME NEW s \in {"claim", "failed"}, UNCHANGED runtimeLock, stage'[p] = s
       PROVE  ActorAgrees(p)'
  BY <1>6, <1>10, ActorFacts DEF ActorAgrees, BuildWork, Written
<1> QED
  BY <1>1, <1>2, <1>5, <1>6, <1>7, <1>8, <1>9, <1>10, RuntimeStep, AtRest
  DEF Stages, SyncWork, Parts

LEMMA FailSyncKeeps ==
  ASSUME RuntimeInv, NEW p \in Syncers, failRuntimeSync(p) PROVE RuntimeInv'
<1> USE RuntimeFacts
<1>1. p \in RuntimeActors /\ stage[p] = "failed"
  BY ActorFacts DEF failRuntimeSync, AtStage
<1>2. UNCHANGED <<build, runtime, buildLock, rev>> /\ Go(p, "idle")
  BY DEF failRuntimeSync, RowTx, runtimeRows, Leave
<1>3. agent' = agent \/ agent' = Postponed
  BY DEF failRuntimeSync, RowTx, runtimeRows
<1>4. /\ agent' \in AgentRow /\ agent'.version = agent.version
      /\ agent'.status = agent.status /\ agent'.synced = agent.synced
  BY <1>3 DEF AgentRow, Postponed
<1>5. runtimeLock = p /\ \A q \in RuntimeActors \ {p} : stage[q] \notin SyncWork
  BY <1>1, AloneAtWork DEF SyncWork
<1>6. \A q \in RuntimeActors : stage[q] \in BuildWork => agent.status # "ready"
  BY DEF ActorAgrees
<1>7. AgentAgrees' /\ RuntimeIsCurrent'
  BY <1>2, <1>4 DEF AgentAgrees, RuntimeIsCurrent
<1> QED
  BY <1>1, <1>2, <1>4, <1>5, <1>6, <1>7, RuntimeStep, AtRest DEF Stages, SyncWork, Parts

-----------------------------------------------------------------------------
(* Builds.                                                                 *)

LEMMA BuildRows ==
  ASSUME RuntimeInv, NEW b \in RuntimeActors
  PROVE  /\ ClaimedBy(build, b) \in BuildRow /\ ClaimedBy(build, b).state = "claimed"
         /\ Succeeded(build) \in BuildRow /\ Succeeded(build).state = "succeeded"
         /\ Released(build) \in BuildRow
         /\ [build EXCEPT !.state = "failed", !.holder = NoHolder] \in BuildRow
<1>0. build \in BuildRow
  BY RuntimeFacts
<1>1. ClaimedBy(build, b) \in BuildRow /\ ClaimedBy(build, b).state = "claimed"
  BY <1>0 DEF BuildRow, JobStates, ClaimedBy
<1>2. Succeeded(build) \in BuildRow /\ Succeeded(build).state = "succeeded"
  BY <1>0 DEF BuildRow, JobStates, Succeeded
<1>3. Released(build) \in BuildRow
  BY <1>0 DEF BuildRow, JobStates, Released
<1>4. [build EXCEPT !.state = "failed", !.holder = NoHolder] \in BuildRow
  BY <1>0 DEF BuildRow, JobStates
<1> QED
  BY <1>1, <1>2, <1>3, <1>4

LEMMA ClaimBuildKeeps ==
  ASSUME RuntimeInv, NEW b \in Builders, claimBuild(b) PROVE RuntimeInv'
<1> USE RuntimeFacts
<1>1. b \in RuntimeActors /\ stage[b] = "idle"
  BY ActorFacts DEF claimBuild, AtStage
<1>2. UNCHANGED <<agent, runtime, buildLock, runtimeLock>> /\ build.state # "succeeded"
  BY DEF claimBuild, RowTx, runtimeRows, runtimeLocks
<1>3. /\ build' \in {build, ClaimedBy(build, b), [build EXCEPT !.state = "failed", !.holder = NoHolder]}
      /\ \/ UNCHANGED <<stage, rev>>
         \/ rev' = [rev EXCEPT ![b] = agent.version] /\ Go(b, "wait")
  BY DEF claimBuild, RowTx, runtimeRows
<1>4. build' \in BuildRow
  BY <1>1, <1>3, BuildRows
<1>5. agent.status # "ready"
  BY <1>2 DEF AgentAgrees
<1>6. AgentAgrees' /\ RuntimeIsCurrent'
  BY <1>2, <1>5 DEF AgentAgrees, RuntimeIsCurrent
<1>7. CASE UNCHANGED <<stage, rev>>
  <2>1. \A q \in RuntimeActors : ActorAgrees(q)'
    BY <1>2, <1>5, <1>7, ActorStays
  <2> QED
    BY <1>2, <1>4, <1>6, <1>7, <2>1 DEF RuntimeInv, RuntimeTypeOK
<1>8. CASE rev' = [rev EXCEPT ![b] = agent.version] /\ Go(b, "wait")
  <2>1. /\ rev' \in [RuntimeActors -> 0..MaxRevision]
        /\ \A q \in RuntimeActors \ {b} : rev'[q] = rev[q]
    BY <1>8
  <2> QED
    BY <1>1, <1>2, <1>4, <1>5, <1>6, <1>8, <2>1, RuntimeStep, AtRest DEF Stages
<1> QED
  BY <1>3, <1>7, <1>8

\* The agent of a held claim is not ready.
LEMMA WaitKeeps ==
  ASSUME RuntimeInv, NEW b \in Builders, withAgentProvisionLock(b) PROVE RuntimeInv'
<1> USE RuntimeFacts
<1>1. b \in RuntimeActors /\ stage[b] = "wait"
  BY ActorFacts DEF withAgentProvisionLock, AtStage
<1>2. UNCHANGED <<agent, build, runtime, runtimeLock, rev>>
  BY DEF withAgentProvisionLock, runtimeRows
<1>3. AgentAgrees' /\ RuntimeIsCurrent'
  BY <1>2 DEF AgentAgrees, RuntimeIsCurrent
<1>4. \A q \in RuntimeActors : stage[q] \in BuildWork => agent.status # "ready"
  BY DEF ActorAgrees
<1>5. \/ IsFree(buildLock) /\ StillClaimed(b) /\ buildLock' = b /\ Go(b, "register")
      \/ UNCHANGED buildLock /\ (Go(b, "idle") \/ Go(b, "giveUp"))
  BY DEF withAgentProvisionLock
<1>6. CASE IsFree(buildLock) /\ StillClaimed(b) /\ buildLock' = b /\ Go(b, "register")
  <2>1. agent.status # "ready"
    BY <1>6 DEF StillClaimed, HoldsClaim, AgentAgrees
  <2>2. \A q \in RuntimeActors : stage[q] \notin BuildWork
    BY <1>1, <1>6, AloneAtWork
  <2>3. stage'[b] = "register" => ActorAgrees(b)'
    BY <1>2, <1>6, <2>1, ActorFacts DEF ActorAgrees, SyncWork, Written
  <2> QED
    BY <1>1, <1>2, <1>3, <1>6, <2>2, <2>3, RuntimeStep DEF Stages, BuildWork
<1>7. CASE UNCHANGED buildLock /\ (Go(b, "idle") \/ Go(b, "giveUp"))
  BY <1>1, <1>2, <1>3, <1>4, <1>7, RuntimeStep, AtRest DEF Stages
<1> QED
  BY <1>5, <1>6, <1>7

\* A write of the build: what it renders it has rendered, and the next place
\* is right to rely on it; or it gives up.
LEMMA WriteKeeps ==
  ASSUME RuntimeInv, NEW b \in Builders, stage[b] \in BuildWork,
         UNCHANGED <<agent, build, runtimeLock, rev>>,
         runtime' \in [Parts -> NotYet..Unsaved],
         \A part \in Parts : runtime'[part] >= 0 \/ runtime'[part] = runtime[part],
         NEW next \in {"install", "equip", "ready"},
         \/ GiveUp(b)
         \/ /\ Go(b, next) /\ UNCHANGED buildLock
            /\ \A part \in Written(next) : runtime'[part] >= 0
  PROVE  RuntimeInv'
<1> USE RuntimeFacts
<1>1. b \in RuntimeActors
  BY ActorFacts
<1>2. /\ buildLock = b /\ agent.status # "ready"
      /\ \A q \in RuntimeActors \ {b} : stage[q] \notin BuildWork
  BY <1>1, AloneAtWork DEF ActorAgrees
<1>3. \A q \in RuntimeActors : stage[q] \notin Parts \cup {"finish"}
  BY <1>2 DEF ActorAgrees
<1>4. AgentAgrees' /\ RuntimeIsCurrent'
  BY <1>2 DEF AgentAgrees, RuntimeIsCurrent
<1>5. CASE GiveUp(b)
  <2>1. Go(b, "giveUp")
    BY <1>5 DEF GiveUp
  <2> QED
    BY <1>1, <1>2, <1>3, <1>4, <2>1, RuntimeStep, AtRest DEF Stages
<1>6. CASE /\ Go(b, next) /\ UNCHANGED buildLock
           /\ \A part \in Written(next) : runtime'[part] >= 0
  <2>1. next \in Stages /\ next \notin SyncWork /\ next \notin Parts \cup {"finish"}
    BY ActorFacts DEF Stages, BuildWork, SyncWork
  <2>2. stage'[b] = next => ActorAgrees(b)'
    BY <1>2, <1>6, <2>1 DEF ActorAgrees, SyncWork
  <2> QED
    BY <1>1, <1>2, <1>3, <1>4, <1>6, <2>1, <2>2, RuntimeStep
<1> QED
  BY <1>5, <1>6

LEMMA ProvisionKeeps ==
  ASSUME RuntimeInv, NEW b \in Builders, provisionAgent(b) PROVE RuntimeInv'
<1> USE RuntimeFacts
<1>1. b \in RuntimeActors /\ stage[b] = "register" /\ rev[b] \in 0..MaxRevision
  BY ActorFacts DEF provisionAgent, AtStage
<1>2. UNCHANGED <<agent, build, runtimeLock, rev>>
  BY DEF provisionAgent, runtimeRows
<1>3. \/ runtime' = Registered(rev[b]) /\ Go(b, "install") /\ UNCHANGED buildLock
      \/ /\ GiveUp(b)
         /\ runtime' \in {runtime, Registered(rev[b]), [runtime EXCEPT !.model = rev[b]]}
  BY DEF provisionAgent, Writes
<1>4. /\ Registered(rev[b]) \in [Parts -> NotYet..Unsaved]
      /\ \A part \in Parts : \/ Registered(rev[b])[part] = runtime[part]
                             \/ Registered(rev[b])[part] >= 0
      /\ Registered(rev[b])["model"] >= 0 /\ Registered(rev[b])["persona"] >= 0
  <2> DEFINE kept == IF runtime.model = NotYet \/ runtime.persona = NotYet
                     THEN rev[b] ELSE runtime.persona
  <2>1. kept \in 0..Unsaved
    BY <1>1 DEF Parts, NotYet, Unsaved
  <2>2. Registered(rev[b]) = [[runtime EXCEPT !["model"] = rev[b]] EXCEPT !["persona"] = kept]
    BY DEF Registered
  <2> HIDE DEF kept
  <2>3. rev[b] \in NotYet..Unsaved /\ kept \in NotYet..Unsaved /\ rev[b] >= 0 /\ kept >= 0
    BY <1>1, <2>1 DEF NotYet, Unsaved
  <2> DEFINE reg == Registered(rev[b])
  <2>4. reg["model"] = rev[b] /\ reg["persona"] = kept /\ reg["skills"] = runtime["skills"]
        /\ reg["tools"] = runtime["tools"] /\ reg \in [Parts -> NotYet..Unsaved]
    BY <2>2, <2>3 DEF Parts
  <2> HIDE DEF reg
  <2>5. \A part \in Parts : reg[part] = runtime[part] \/ reg[part] >= 0
    BY <2>3, <2>4 DEF Parts
  <2> QED
    BY <2>3, <2>4, <2>5 DEF reg
<1>5. /\ [runtime EXCEPT !.model = rev[b]] \in [Parts -> NotYet..Unsaved]
      /\ \A part \in Parts : \/ [runtime EXCEPT !.model = rev[b]][part] = runtime[part]
                             \/ [runtime EXCEPT !.model = rev[b]][part] >= 0
  BY <1>1 DEF Parts, NotYet, Unsaved
<1>6. Written("install") = {"persona", "model"}
  BY DEF Written, Parts
<1> QED
  BY <1>1, <1>2, <1>3, <1>4, <1>5, <1>6, WriteKeeps DEF BuildWork

LEMMA InstallKeeps ==
  ASSUME RuntimeInv, NEW b \in Builders, installDefaultAgentSkills(b) PROVE RuntimeInv'
<1> USE RuntimeFacts
<1> DEFINE written == [runtime EXCEPT !.skills = agent.version]
<1>1. b \in RuntimeActors /\ stage[b] = "install"
  BY ActorFacts DEF installDefaultAgentSkills, AtStage
<1>2. UNCHANGED <<agent, build, runtimeLock, rev>>
  BY DEF installDefaultAgentSkills, runtimeRows
<1>3. \/ runtime' = written /\ Go(b, "equip") /\ UNCHANGED buildLock
      \/ GiveUp(b) /\ runtime' \in {runtime, written}
  BY DEF installDefaultAgentSkills, Writes
<1>4. /\ written \in [Parts -> NotYet..Unsaved] /\ written["skills"] >= 0
      /\ \A part \in Parts : written[part] = runtime[part] \/ written[part] >= 0
  BY DEF Parts, NotYet, Unsaved
<1>5. \A part \in Written("install") : runtime[part] >= 0
  BY <1>1 DEF ActorAgrees
<1>6. \A part \in Written("equip") : part \in Written("install") \/ part = "skills"
  BY DEF Written
<1>7. \A part \in Written("equip") : written[part] >= 0
  BY <1>4, <1>5, <1>6 DEF Written
<1> QED
  BY <1>1, <1>2, <1>3, <1>4, <1>7, WriteKeeps DEF BuildWork

LEMMA EquipKeeps ==
  ASSUME RuntimeInv, NEW b \in Builders, syncAgentToolGroups(b) PROVE RuntimeInv'
<1> USE RuntimeFacts
<1> DEFINE written == [runtime EXCEPT !.tools = rev[b]]
<1>1. b \in RuntimeActors /\ stage[b] = "equip" /\ rev[b] \in 0..MaxRevision
  BY ActorFacts DEF syncAgentToolGroups, AtStage
<1>2. UNCHANGED <<agent, build, runtimeLock, rev>>
  BY DEF syncAgentToolGroups, runtimeRows
<1>3. \/ runtime' = written /\ Go(b, "ready") /\ UNCHANGED buildLock
      \/ GiveUp(b) /\ runtime' \in {runtime, written}
  BY DEF syncAgentToolGroups, Writes
<1>4. /\ written \in [Parts -> NotYet..Unsaved] /\ written["tools"] >= 0
      /\ \A part \in Parts : written[part] = runtime[part] \/ written[part] >= 0
  BY <1>1 DEF Parts, NotYet, Unsaved
<1>5. \A part \in Written("equip") : runtime[part] >= 0
  BY <1>1 DEF ActorAgrees
<1>6. \A part \in Written("ready") : part \in Written("equip") \/ part = "tools"
  BY DEF Written, Parts
<1>7. \A part \in Written("ready") : written[part] >= 0
  BY <1>4, <1>5, <1>6 DEF Written
<1> QED
  BY <1>1, <1>2, <1>3, <1>4, <1>7, WriteKeeps DEF BuildWork

LEMMA ReadyKeeps ==
  ASSUME RuntimeInv, NEW b \in Builders, finishReady(b) PROVE RuntimeInv'
<1> USE RuntimeFacts
<1>1. b \in RuntimeActors /\ stage[b] = "ready"
  BY ActorFacts DEF finishReady, AtStage
<1>2. UNCHANGED <<runtime, runtimeLock, rev>>
  BY DEF finishReady
<1>3. /\ buildLock = b /\ agent.status # "ready"
      /\ \A q \in RuntimeActors \ {b} : stage[q] \notin BuildWork
  BY <1>1, AloneAtWork DEF ActorAgrees, BuildWork
<1>4. \A part \in Parts : runtime[part] >= 0
  BY <1>1 DEF ActorAgrees, Written
<1>5. \A q \in RuntimeActors : stage[q] \notin Parts \cup {"finish"}
  BY <1>3 DEF ActorAgrees
<1>6. \E s \in {"idle", "giveUp"} : Go(b, s)
  BY DEF finishReady, GiveUp, RowTx
<1>7. \/ UNCHANGED <<agent, build>>
      \/ build' = Succeeded(build) /\ agent' = [agent EXCEPT !.status = "ready"]
  BY DEF finishReady, RowTx, runtimeRows
<1>8. CASE UNCHANGED <<agent, build>>
  <2>1. AgentAgrees' /\ RuntimeIsCurrent'
    BY <1>2, <1>8 DEF AgentAgrees, RuntimeIsCurrent
  <2> QED
    BY <1>1, <1>2, <1>3, <1>5, <1>6, <1>8, <2>1, RuntimeStep, AtRest DEF Stages
<1>9. CASE build' = Succeeded(build) /\ agent' = [agent EXCEPT !.status = "ready"]
  <2>1. /\ agent' \in AgentRow /\ agent'.version = agent.version
        /\ agent'.status = "ready" /\ agent'.synced = agent.synced
    BY <1>9 DEF AgentRow
  <2>2. build' \in BuildRow /\ build'.state = "succeeded"
    BY <1>1, <1>9, BuildRows
  <2>3. agent.synced = 0
    BY <1>3 DEF AgentAgrees
  <2>4. AgentAgrees' /\ RuntimeIsCurrent'
    BY <1>2, <1>4, <2>1, <2>2, <2>3 DEF AgentAgrees, RuntimeIsCurrent
  <2> QED
    BY <1>1, <1>2, <1>3, <1>5, <1>6, <2>1, <2>2, <2>4, RuntimeStep, AtRest DEF Stages
<1> QED
  BY <1>7, <1>8, <1>9

LEMMA BuildFailureKeeps ==
  ASSUME RuntimeInv, NEW b \in Builders, finishFailure(b) PROVE RuntimeInv'
<1> USE RuntimeFacts
<1>1. b \in RuntimeActors
  BY ActorFacts
<1>2. UNCHANGED <<runtime, runtimeLock, buildLock, rev>> /\ Go(b, "idle")
  BY DEF finishFailure, runtimeLocks
<1>3. \/ UNCHANGED <<agent, build>>
      \/ /\ HoldsClaim(build, b) /\ build' = Released(build)
         /\ \/ UNCHANGED agent
            \/ agent' = [agent EXCEPT !.status = "failed"]
  BY DEF finishFailure, RowTx, runtimeRows
<1>4. CASE UNCHANGED <<agent, build>>
  <2>1. AgentAgrees' /\ RuntimeIsCurrent'
    BY <1>2, <1>4 DEF AgentAgrees, RuntimeIsCurrent
  <2>2. \A q \in RuntimeActors : stage[q] \in BuildWork => agent.status # "ready"
    BY DEF ActorAgrees
  <2> QED
    BY <1>1, <1>2, <1>4, <2>1, <2>2, RuntimeStep, AtRest DEF Stages
<1>5. CASE /\ HoldsClaim(build, b) /\ build' = Released(build)
           /\ \/ UNCHANGED agent
              \/ agent' = [agent EXCEPT !.status = "failed"]
  <2>1. agent.status # "ready"
    BY <1>5 DEF HoldsClaim, AgentAgrees
  <2>2. /\ agent' \in AgentRow /\ agent'.version = agent.version
        /\ agent'.status # "ready" /\ agent'.synced = agent.synced
    BY <1>5, <2>1 DEF AgentRow
  <2>3. build' \in BuildRow
    BY <1>1, <1>5, BuildRows
  <2>4. AgentAgrees' /\ RuntimeIsCurrent'
    BY <2>1, <2>2 DEF AgentAgrees, RuntimeIsCurrent
  <2> QED
    BY <1>1, <1>2, <2>1, <2>2, <2>3, <2>4, RuntimeStep, AtRest DEF Stages
<1> QED
  BY <1>3, <1>4, <1>5

-----------------------------------------------------------------------------
(* Leases and crashes.                                                     *)

LEMMA RuntimeLapseKeeps ==
  ASSUME RuntimeInv, SyncLeaseLapses \/ BuildLapses \/ UNCHANGED runtimeVars
  PROVE  RuntimeInv'
<1> USE RuntimeFacts
<1>1. /\ UNCHANGED <<build, runtime, runtimeLock, buildLock, stage, rev>>
      /\ UNCHANGED agent \/ agent' = [agent EXCEPT !.leased = FALSE]
  BY DEF SyncLeaseLapses, BuildLapses, runtimeVars, runtimeRows, runtimeLocks
<1>2. /\ agent' \in AgentRow /\ agent'.version = agent.version
      /\ agent'.status = agent.status /\ agent'.synced = agent.synced
  BY <1>1 DEF AgentRow
<1>3. \A q \in RuntimeActors : stage[q] \in BuildWork => agent.status # "ready"
  BY DEF ActorAgrees
<1>4. \A q \in RuntimeActors : ActorAgrees(q)'
  BY <1>1, <1>2, <1>3, ActorStays
<1>5. AgentAgrees' /\ RuntimeIsCurrent'
  BY <1>1, <1>2 DEF AgentAgrees, RuntimeIsCurrent
<1> QED
  BY <1>1, <1>2, <1>4, <1>5 DEF RuntimeInv, RuntimeTypeOK

LEMMA HostCrashKeeps ==
  ASSUME RuntimeInv, NEW h, HostCrash(h) PROVE RuntimeInv'
<1> USE RuntimeFacts
<1>1. UNCHANGED <<agent, build, runtime, rev>>
  BY DEF HostCrash, runtimeRows
<1>2. stage' = [p \in RuntimeActors |-> IF HostOf[p] = h THEN "idle" ELSE stage[p]]
  BY DEF HostCrash
<1>3. stage' \in [RuntimeActors -> Stages]
  BY <1>2 DEF Stages
<1>4. ASSUME NEW q \in RuntimeActors PROVE ActorAgrees(q)'
  <2>1. CASE HostOf[q] = h
    <3>1. stage'[q] = "idle"
      BY <1>2, <2>1
    <3> QED
      BY <3>1, AtRest
  <2>2. CASE HostOf[q] # h
    <3>1. stage'[q] = stage[q]
      BY <1>2, <2>2
    <3>2. stage[q] \in SyncWork => runtimeLock' = runtimeLock
      BY <2>2 DEF ActorAgrees, HostCrash
    <3>3. stage[q] \in BuildWork => buildLock' = buildLock /\ agent.status # "ready"
      BY <2>2 DEF ActorAgrees, HostCrash
    <3> QED
      BY <1>1, <3>1, <3>2, <3>3, ActorStays
  <2> QED
    BY <2>1, <2>2
<1>5. AgentAgrees' /\ RuntimeIsCurrent'
  BY <1>1 DEF AgentAgrees, RuntimeIsCurrent
<1> QED
  BY <1>1, <1>3, <1>4, <1>5 DEF RuntimeInv, RuntimeTypeOK

LEMMA RuntimeStart == ASSUME RuntimesInit PROVE RuntimeInv
<1> USE RuntimesAssumption
<1>1. agent \in AgentRow /\ agent.version = 0 /\ agent.synced = 0 /\ agent.status = "provisioning"
  BY DEF RuntimesInit, AgentRow
<1>2. build \in BuildRow
  BY DEF RuntimesInit, BuildRow, NewJob, JobStates
<1>3. /\ runtime \in [Parts -> NotYet..Unsaved] /\ stage \in [RuntimeActors -> Stages]
      /\ rev \in [RuntimeActors -> 0..MaxRevision]
  BY DEF RuntimesInit, NotYet, Unsaved, Stages
<1>4. AgentAgrees /\ RuntimeIsCurrent
  BY <1>1 DEF AgentAgrees, RuntimeIsCurrent
<1>5. \A p \in RuntimeActors : stage[p] = "idle"
  BY DEF RuntimesInit
<1>6. \A p \in RuntimeActors : ActorAgrees(p)
  BY <1>5, ActorFacts DEF ActorAgrees, SyncWork, BuildWork, Written
<1> QED
  BY <1>1, <1>2, <1>3, <1>4, <1>6 DEF RuntimeInv, RuntimeTypeOK

\* agent-runtime-sync.ts: "No older claimant can resume after the authoritative
\* revision and clobber its filesystem/config side effects."  For any number of
\* workers, requests, schedulers and edits: whoever crashed, lapsed, was taken
\* over or wrote late, no part of a ready agent's runtime is older than the
\* revision that is recorded as synchronized.
THEOREM RuntimeIsCurrentThm == RuntimesSpec => []RuntimeIsCurrent
<1>1. RuntimesInit => RuntimeInv
  BY RuntimeStart
<1>2. ASSUME RuntimeInv, [RuntimesNext]_runtimeVars PROVE RuntimeInv'
  <2>1. ASSUME NEW p \in Syncers,
               editAgent(p) \/ beginSave(p) \/ retryProvision(p) \/ SyncStep(p)
        PROVE  RuntimeInv'
    BY <1>2, <2>1, EditKeeps, BeginSaveKeeps, CommitSaveKeeps, RetryProvisionKeeps, LockKeeps,
       ClaimSyncKeeps, PublishKeeps, FinishSyncKeeps, FailSyncKeeps DEF SyncStep
  <2>2. ASSUME NEW b \in Builders, BuildStep(b) PROVE RuntimeInv'
    BY <1>2, <2>2, ClaimBuildKeeps, WaitKeeps, ProvisionKeeps, InstallKeeps, EquipKeeps,
       ReadyKeeps, BuildFailureKeeps DEF BuildStep
  <2>3. CASE SyncLeaseLapses \/ BuildLapses \/ UNCHANGED runtimeVars
    BY <1>2, <2>3, RuntimeLapseKeeps
  <2>4. ASSUME NEW h \in {HostOf[p] : p \in RuntimeActors}, HostCrash(h) PROVE RuntimeInv'
    BY <1>2, <2>4, HostCrashKeeps
  <2> QED
    BY <1>2, <2>1, <2>2, <2>3, <2>4 DEF RuntimesNext
<1>3. RuntimeInv /\ [RuntimesNext]_runtimeVars => RuntimeInv'
  BY <1>2
<1>4. RuntimeInv => RuntimeIsCurrent
  BY DEF RuntimeInv
<1> QED
  BY <1>1, <1>3, <1>4, PTL DEF RuntimesSpec

-----------------------------------------------------------------------------
(* Paid media.                                                             *)

MediaStatuses == {"none", "pending", "provider_admitted", "refund_pending", "completed", "error"}

ToolStates == {"none", "asked", "running", "blocked", "failed", "over"}

FileStates == {"none", "landed", "checked", "handled"}

StudioPlaces == {"idle", "reserved", "waiting", "ingesting", "failing", "reversing", "ended"}

MediaTypeOK ==
  /\ row \in [Requests -> MediaStatuses]
  /\ spent \subseteq Requests
  /\ quarantined \in BOOLEAN
  /\ tool \in [Requests -> ToolStates]
  /\ file \in [Requests -> FileStates]
  /\ studio \in [StudioRequests -> StudioPlaces]
  /\ got \in [StudioRequests -> Requests \cup {NoMedia}]
  /\ claims \in Seq(StudioRequests)
  /\ sighting \in [Syncs -> ChatRequests \cup {NoMedia}]
  /\ creation \in [Requests -> Requests \cup {NoMedia}]

\* The first half of ArtifactsArePaid.
ArtifactAgrees(r) ==
  /\ r \in spent <=> row[r] \in Open \cup {"completed"}
  /\ row[r] = "completed" <=> creation[r] # NoMedia

\* A Studio handler that is not idle has its row, and one that ingests a file.
HandlerAgrees(s) ==
  /\ studio[s] = "idle" => row[s] = "none" /\ got[s] = NoMedia
  /\ studio[s] \in {"idle", "reserved"} => tool[s] = "none"
  /\ studio[s] \notin {"idle", "ended"} => row[s] # "none"
  /\ studio[s] = "ingesting" => got[s] # NoMedia
  /\ tool[s] \in {"none", "asked", "running", "blocked"}

\* A chat run is authorized before it starts, and only then.
RunIsAuthorized(c) ==
  /\ tool[c] = "none" => row[c] = "none"
  /\ tool[c] \in {"running", "failed"} => row[c] # "none"

\* Only a run writes a file.
FileHasRun(r) == file[r] \in {"landed", "checked"} => tool[r] \in {"running", "failed", "over"}

ClaimsHaveHandlers == \A i \in 1..Len(claims) : studio[claims[i]] # "idle"

\* The lock of the output kind: no two Studio requests are open.
OneIsOpen == \A s, q \in StudioRequests : row[s] \in Open /\ row[q] \in Open => s = q

\* Nothing can be completed from the moment a run's file may be anybody's.
QuarantineHolds == quarantined => \A s \in StudioRequests : row[s] \notin Unused

\* A request that got its own file will not see another of its run.
OwnIsHandled(s) == got[s] = s => file[s] = "handled" \/ tool[s] = "blocked"

\* No chat run's file was taken for a Studio request's.
Undisturbed == \A s \in StudioRequests : creation[s] \notin ChatRequests

\* A Studio run that may still write its file is the open one or has left the
\* quarantine behind.
LateIsQuarantined(s) ==
  tool[s] = "running" /\ file[s] # "handled" => row[s] = "provider_admitted" \/ quarantined

\* What a request that can be completed has got.
GotIsOwn(s) == row[s] \in Unused /\ got[s] # NoMedia => got[s] \in {s} \cup ChatRequests

MediaInv ==
  /\ MediaTypeOK
  /\ \A r \in Requests : ArtifactAgrees(r)
  /\ \A s \in StudioRequests : HandlerAgrees(s)
  /\ \A c \in ChatRequests : RunIsAuthorized(c)
  /\ \A r \in Requests : FileHasRun(r)
  /\ ClaimsHaveHandlers
  /\ OneIsOpen
  /\ QuarantineHolds
  /\ \A s \in StudioRequests : OwnIsHandled(s)
  /\ Undisturbed => \A s \in StudioRequests : LateIsQuarantined(s) /\ GotIsOwn(s)
  /\ Undisturbed => NeverAnotherTenants

\* What is left of the watcher's queue was there.
LEMMA UnclaimedFacts ==
  ASSUME NEW s \in StudioRequests, claims \in Seq(StudioRequests)
  PROVE  /\ Unclaimed(s) \in Seq(StudioRequests)
         /\ \A i \in 1..Len(Unclaimed(s)) :
              \E j \in 1..Len(claims) : Unclaimed(s)[i] = claims[j]
<1> DEFINE Queued == {claims[j] : j \in 1..Len(claims)}
           places == {i \in 1..Len(claims) : claims[i] = s}
           idx == CHOOSE i \in places : TRUE
<1>1. claims \in Seq(Queued)
  OBVIOUS
<1>2. Unclaimed(s) \in Seq(Queued)
  <2>1. CASE places = {}
    BY <1>1, <2>1 DEF Unclaimed
  <2>2. CASE places # {}
    <3>1. idx \in 1..Len(claims)
      BY <2>2
    <3>2. Unclaimed(s) = SubSeq(claims, 1, idx - 1) \o SubSeq(claims, idx + 1, Len(claims))
      BY <2>2 DEF Unclaimed
    <3> HIDE DEF idx
    <3>3. \A m, n \in Int : 1 <= m /\ n <= Len(claims) => SubSeq(claims, m, n) \in Seq(Queued)
      <4>1. ASSUME NEW m \in Int, NEW n \in Int, 1 <= m, n <= Len(claims)
            PROVE  SubSeq(claims, m, n) \in Seq(Queued)
        <5>1. \A i \in m..n : claims[i] \in Queued
          BY <4>1
        <5> HIDE DEF Queued
        <5> QED
          BY <5>1, SubSeqProperties
      <4> QED
        BY <4>1
    <3> HIDE DEF Queued
    <3> QED
      BY <3>1, <3>2, <3>3, ConcatProperties
  <2> QED
    BY <2>1, <2>2
<1>3. \A q \in Queued : q \in StudioRequests
  OBVIOUS
<1>4. \A i \in 1..Len(Unclaimed(s)) : Unclaimed(s)[i] \in Queued
  <2> HIDE DEF Queued
  <2> QED
    BY <1>2
<1>5. Unclaimed(s) \in Seq(StudioRequests)
  <2> HIDE DEF Queued
  <2> QED
    BY <1>2, <1>3
<1> QED
  BY <1>4, <1>5

\* reserveStudioGeneration, under the lock of the output kind.
LEMMA StudioReserves ==
  ASSUME MediaInv, NEW s \in StudioRequests, reserveStudioGeneration(s)
  PROVE  MediaInv'
<1>1. MediaTypeOK'
  BY MediaAssumption DEF MediaInv, MediaTypeOK, MediaStatuses, ToolStates, FileStates,
     StudioPlaces, reserveStudioGeneration, Tx, MediaFault, SetRow, StudioGoes, NoGateway,
     Requests, Unused, Open, Final
<1>2. \A q \in Requests : ArtifactAgrees(q)'
  BY MediaAssumption DEF MediaInv, ArtifactAgrees, HandlerAgrees, RunIsAuthorized,
     MediaTypeOK, reserveStudioGeneration, Tx, MediaFault, SetRow, StudioGoes, NoGateway,
     Requests, Unused, Open, Final
<1>3. \A q \in StudioRequests : HandlerAgrees(q)'
  BY MediaAssumption DEF MediaInv, HandlerAgrees, MediaTypeOK, ToolStates,
     reserveStudioGeneration, Tx, MediaFault, SetRow, StudioGoes, NoGateway, Requests,
     Unused, Open, Final
<1>4. \A e \in ChatRequests : RunIsAuthorized(e)'
  BY MediaAssumption DEF MediaInv, RunIsAuthorized, MediaTypeOK, reserveStudioGeneration,
     Tx, MediaFault, SetRow, StudioGoes, NoGateway, Requests, Unused, Open, Final
<1>5. \A q \in Requests : FileHasRun(q)'
  BY MediaAssumption DEF MediaInv, FileHasRun, HandlerAgrees, MediaTypeOK,
     reserveStudioGeneration, Tx, MediaFault, SetRow, StudioGoes, NoGateway, Requests,
     Unused, Open, Final
<1>6. ClaimsHaveHandlers'
  BY MediaAssumption DEF MediaInv, ClaimsHaveHandlers, MediaTypeOK,
     reserveStudioGeneration, Tx, MediaFault, SetRow, StudioGoes, NoGateway, Requests,
     Unused, Open, Final
<1>7. OneIsOpen'
  BY MediaAssumption DEF MediaInv, OneIsOpen, HandlerAgrees, MediaTypeOK,
     reserveStudioGeneration, Tx, MediaFault, SetRow, StudioGoes, NoGateway, Requests,
     Unused, Open, Final
<1>8. QuarantineHolds'
  BY MediaAssumption DEF MediaInv, QuarantineHolds, OneIsOpen, MediaTypeOK,
     reserveStudioGeneration, Tx, MediaFault, SetRow, StudioGoes, NoGateway, Requests,
     Unused, Open, Final
<1>9. \A q \in StudioRequests : OwnIsHandled(q)'
  BY MediaAssumption DEF MediaInv, OwnIsHandled, HandlerAgrees, MediaTypeOK,
     reserveStudioGeneration, Tx, MediaFault, SetRow, StudioGoes, NoGateway, Requests,
     Unused, Open, Final
<1>10. Undisturbed' => \A q \in StudioRequests : LateIsQuarantined(q)' /\ GotIsOwn(q)'
  BY MediaAssumption DEF MediaInv, Undisturbed, LateIsQuarantined, GotIsOwn,
     HandlerAgrees, ArtifactAgrees, OneIsOpen, QuarantineHolds, FileHasRun, OwnIsHandled,
     MediaTypeOK, ToolStates, reserveStudioGeneration, Tx, MediaFault, SetRow, StudioGoes,
     NoGateway, Requests, Unused, Open, Final
<1>11. Undisturbed' => NeverAnotherTenants'
  BY MediaAssumption DEF MediaInv, Undisturbed, NeverAnotherTenants, GotIsOwn,
     ArtifactAgrees, MediaTypeOK, reserveStudioGeneration, Tx, MediaFault, SetRow,
     StudioGoes, NoGateway, Requests, Unused, Open, Final
<1> QED
  BY <1>1, <1>2, <1>3, <1>4, <1>5, <1>6, <1>7, <1>8, <1>9, <1>10, <1>11 DEF MediaInv

\* claimNext and invokeTool.
LEMMA StudioClaims ==
  ASSUME MediaInv, NEW s \in StudioRequests, claimNext(s)
  PROVE  MediaInv'
<1>1. /\ claims' \in Seq(StudioRequests)
      /\ \A i \in 1..Len(claims') :
           claims'[i] = s \/ (i \in 1..Len(claims) /\ claims'[i] = claims[i])
  <2>1. CASE UNCHANGED claims
    BY <2>1 DEF MediaInv, MediaTypeOK
  <2>2. CASE claims' = Append(claims, s)
    <3>1. claims \in Seq(StudioRequests)
      BY DEF MediaInv, MediaTypeOK
    <3>2. /\ claims' \in Seq(StudioRequests) /\ Len(claims') = Len(claims) + 1
          /\ \A i \in 1..Len(claims) : claims'[i] = claims[i]
          /\ claims'[Len(claims) + 1] = s
      BY <2>2, <3>1, AppendProperties
    <3>3. \A i \in 1..(Len(claims) + 1) : i \in 1..Len(claims) \/ i = Len(claims) + 1
      BY <3>1
    <3>4. ASSUME NEW i \in 1..Len(claims')
          PROVE  claims'[i] = s \/ (i \in 1..Len(claims) /\ claims'[i] = claims[i])
      <4>1. i \in 1..(Len(claims) + 1)
        BY <3>2
      <4> QED
        BY <3>2, <3>3, <4>1
    <3> QED
      BY <3>2, <3>4
  <2> QED
    BY <2>1, <2>2 DEF claimNext
<1>2. MediaTypeOK'
  BY MediaAssumption, <1>1 DEF MediaInv, MediaTypeOK, MediaStatuses, ToolStates,
     FileStates, StudioPlaces, claimNext, MediaFault, StudioGoes, NoRows, Requests,
     Unused, Open, Final
<1>3. \A q \in Requests : ArtifactAgrees(q)'
  BY MediaAssumption DEF MediaInv, ArtifactAgrees, HandlerAgrees, RunIsAuthorized,
     MediaTypeOK, claimNext, MediaFault, StudioGoes, NoRows, Requests, Unused, Open, Final
<1>4. \A q \in StudioRequests : HandlerAgrees(q)'
  BY MediaAssumption DEF MediaInv, HandlerAgrees, MediaTypeOK, ToolStates, claimNext,
     MediaFault, StudioGoes, NoRows, Requests, Unused, Open, Final
<1>5. \A e \in ChatRequests : RunIsAuthorized(e)'
  BY MediaAssumption DEF MediaInv, RunIsAuthorized, MediaTypeOK, claimNext, MediaFault,
     StudioGoes, NoRows, Requests, Unused, Open, Final
<1>6. \A q \in Requests : FileHasRun(q)'
  BY MediaAssumption DEF MediaInv, FileHasRun, HandlerAgrees, MediaTypeOK, claimNext,
     MediaFault, StudioGoes, NoRows, Requests, Unused, Open, Final
<1>7. ClaimsHaveHandlers'
  BY MediaAssumption, <1>1 DEF MediaInv, ClaimsHaveHandlers, MediaTypeOK, claimNext,
     MediaFault, StudioGoes, NoRows, Requests, Unused, Open, Final
<1>8. OneIsOpen'
  BY MediaAssumption DEF MediaInv, OneIsOpen, HandlerAgrees, MediaTypeOK, claimNext,
     MediaFault, StudioGoes, NoRows, Requests, Unused, Open, Final
<1>9. QuarantineHolds'
  BY MediaAssumption DEF MediaInv, QuarantineHolds, OneIsOpen, MediaTypeOK, claimNext,
     MediaFault, StudioGoes, NoRows, Requests, Unused, Open, Final
<1>10. \A q \in StudioRequests : OwnIsHandled(q)'
  BY MediaAssumption DEF MediaInv, OwnIsHandled, HandlerAgrees, MediaTypeOK, claimNext,
     MediaFault, StudioGoes, NoRows, Requests, Unused, Open, Final
<1>11. Undisturbed' => \A q \in StudioRequests : LateIsQuarantined(q)' /\ GotIsOwn(q)'
  BY MediaAssumption DEF MediaInv, Undisturbed, LateIsQuarantined, GotIsOwn,
     HandlerAgrees, ArtifactAgrees, OneIsOpen, QuarantineHolds, FileHasRun, OwnIsHandled,
     MediaTypeOK, ToolStates, claimNext, MediaFault, StudioGoes, NoRows, Requests, Unused,
     Open, Final
<1>12. Undisturbed' => NeverAnotherTenants'
  BY MediaAssumption DEF MediaInv, Undisturbed, NeverAnotherTenants, GotIsOwn,
     ArtifactAgrees, MediaTypeOK, claimNext, MediaFault, StudioGoes, NoRows, Requests,
     Unused, Open, Final
<1> QED
  BY <1>2, <1>3, <1>4, <1>5, <1>6, <1>7, <1>8, <1>9, <1>10, <1>11, <1>12 DEF MediaInv

\* The gateway's hook consumes the ticket.
LEMMA StudioAdmits ==
  ASSUME MediaInv, NEW s \in StudioRequests, verifyPendingStudioMedia(s)
  PROVE  MediaInv'
<1>1. MediaTypeOK'
  BY MediaAssumption DEF MediaInv, MediaTypeOK, MediaStatuses, ToolStates, FileStates,
     StudioPlaces, verifyPendingStudioMedia, Tx, MediaFault, SetRow, NoHandler, Requests,
     Unused, Open, Final
<1>2. \A q \in Requests : ArtifactAgrees(q)'
  BY MediaAssumption DEF MediaInv, ArtifactAgrees, HandlerAgrees, RunIsAuthorized,
     MediaTypeOK, verifyPendingStudioMedia, Tx, MediaFault, SetRow, NoHandler, Requests,
     Unused, Open, Final
<1>3. \A q \in StudioRequests : HandlerAgrees(q)'
  BY MediaAssumption DEF MediaInv, HandlerAgrees, MediaTypeOK, ToolStates,
     verifyPendingStudioMedia, Tx, MediaFault, SetRow, NoHandler, Requests, Unused, Open,
     Final
<1>4. \A e \in ChatRequests : RunIsAuthorized(e)'
  BY MediaAssumption DEF MediaInv, RunIsAuthorized, MediaTypeOK, verifyPendingStudioMedia,
     Tx, MediaFault, SetRow, NoHandler, Requests, Unused, Open, Final
<1>5. \A q \in Requests : FileHasRun(q)'
  BY MediaAssumption DEF MediaInv, FileHasRun, HandlerAgrees, MediaTypeOK,
     verifyPendingStudioMedia, Tx, MediaFault, SetRow, NoHandler, Requests, Unused, Open,
     Final
<1>6. ClaimsHaveHandlers'
  BY MediaAssumption DEF MediaInv, ClaimsHaveHandlers, MediaTypeOK,
     verifyPendingStudioMedia, Tx, MediaFault, SetRow, NoHandler, Requests, Unused, Open,
     Final
<1>7. OneIsOpen'
  BY MediaAssumption DEF MediaInv, OneIsOpen, HandlerAgrees, MediaTypeOK,
     verifyPendingStudioMedia, Tx, MediaFault, SetRow, NoHandler, Requests, Unused, Open,
     Final
<1>8. QuarantineHolds'
  BY MediaAssumption DEF MediaInv, QuarantineHolds, OneIsOpen, MediaTypeOK,
     verifyPendingStudioMedia, Tx, MediaFault, SetRow, NoHandler, Requests, Unused, Open,
     Final
<1>9. \A q \in StudioRequests : OwnIsHandled(q)'
  BY MediaAssumption DEF MediaInv, OwnIsHandled, HandlerAgrees, MediaTypeOK,
     verifyPendingStudioMedia, Tx, MediaFault, SetRow, NoHandler, Requests, Unused, Open,
     Final
<1>10. Undisturbed' => \A q \in StudioRequests : LateIsQuarantined(q)' /\ GotIsOwn(q)'
  BY MediaAssumption DEF MediaInv, Undisturbed, LateIsQuarantined, GotIsOwn,
     HandlerAgrees, ArtifactAgrees, OneIsOpen, QuarantineHolds, FileHasRun, OwnIsHandled,
     MediaTypeOK, ToolStates, verifyPendingStudioMedia, Tx, MediaFault, SetRow, NoHandler,
     Requests, Unused, Open, Final
<1>11. Undisturbed' => NeverAnotherTenants'
  BY MediaAssumption DEF MediaInv, Undisturbed, NeverAnotherTenants, GotIsOwn,
     ArtifactAgrees, MediaTypeOK, verifyPendingStudioMedia, Tx, MediaFault, SetRow,
     NoHandler, Requests, Unused, Open, Final
<1> QED
  BY <1>1, <1>2, <1>3, <1>4, <1>5, <1>6, <1>7, <1>8, <1>9, <1>10, <1>11 DEF MediaInv

\* A provider without a gateway route.
LEMMA StudioCallsProvider ==
  ASSUME MediaInv, NEW s \in StudioRequests, admitStudioGeneration(s)
  PROVE  MediaInv'
<1>1. /\ claims' \in Seq(StudioRequests)
      /\ \A i \in 1..Len(claims') : \E j \in 1..Len(claims) : claims'[i] = claims[j]
  BY UnclaimedFacts DEF MediaInv, MediaTypeOK, admitStudioGeneration
<1>2. MediaTypeOK'
  BY MediaAssumption, <1>1 DEF MediaInv, MediaTypeOK, MediaStatuses, ToolStates,
     FileStates, StudioPlaces, admitStudioGeneration, Tx, MediaFault, SetRow, StudioGoes,
     Requests, Unused, Open, Final
<1>3. \A q \in Requests : ArtifactAgrees(q)'
  BY MediaAssumption DEF MediaInv, ArtifactAgrees, HandlerAgrees, RunIsAuthorized,
     MediaTypeOK, admitStudioGeneration, Tx, MediaFault, SetRow, StudioGoes, Requests,
     Unused, Open, Final
<1>4. \A q \in StudioRequests : HandlerAgrees(q)'
  BY MediaAssumption DEF MediaInv, HandlerAgrees, MediaTypeOK, ToolStates,
     admitStudioGeneration, Tx, MediaFault, SetRow, StudioGoes, Requests, Unused, Open,
     Final
<1>5. \A e \in ChatRequests : RunIsAuthorized(e)'
  BY MediaAssumption DEF MediaInv, RunIsAuthorized, MediaTypeOK, admitStudioGeneration,
     Tx, MediaFault, SetRow, StudioGoes, Requests, Unused, Open, Final
<1>6. \A q \in Requests : FileHasRun(q)'
  BY MediaAssumption DEF MediaInv, FileHasRun, HandlerAgrees, MediaTypeOK,
     admitStudioGeneration, Tx, MediaFault, SetRow, StudioGoes, Requests, Unused, Open,
     Final
<1>7. ClaimsHaveHandlers'
  BY MediaAssumption, <1>1 DEF MediaInv, ClaimsHaveHandlers, MediaTypeOK,
     admitStudioGeneration, Tx, MediaFault, SetRow, StudioGoes, Requests, Unused, Open,
     Final
<1>8. OneIsOpen'
  BY MediaAssumption DEF MediaInv, OneIsOpen, HandlerAgrees, MediaTypeOK,
     admitStudioGeneration, Tx, MediaFault, SetRow, StudioGoes, Requests, Unused, Open,
     Final
<1>9. QuarantineHolds'
  BY MediaAssumption DEF MediaInv, QuarantineHolds, OneIsOpen, MediaTypeOK,
     admitStudioGeneration, Tx, MediaFault, SetRow, StudioGoes, Requests, Unused, Open,
     Final
<1>10. \A q \in StudioRequests : OwnIsHandled(q)'
  BY MediaAssumption DEF MediaInv, OwnIsHandled, HandlerAgrees, MediaTypeOK,
     admitStudioGeneration, Tx, MediaFault, SetRow, StudioGoes, Requests, Unused, Open,
     Final
<1>11. Undisturbed' => \A q \in StudioRequests : LateIsQuarantined(q)' /\ GotIsOwn(q)'
  BY MediaAssumption DEF MediaInv, Undisturbed, LateIsQuarantined, GotIsOwn,
     HandlerAgrees, ArtifactAgrees, OneIsOpen, QuarantineHolds, FileHasRun, OwnIsHandled,
     MediaTypeOK, ToolStates, admitStudioGeneration, Tx, MediaFault, SetRow, StudioGoes,
     Requests, Unused, Open, Final
<1>12. Undisturbed' => NeverAnotherTenants'
  BY MediaAssumption DEF MediaInv, Undisturbed, NeverAnotherTenants, GotIsOwn,
     ArtifactAgrees, MediaTypeOK, admitStudioGeneration, Tx, MediaFault, SetRow,
     StudioGoes, Requests, Unused, Open, Final
<1> QED
  BY <1>2, <1>3, <1>4, <1>5, <1>6, <1>7, <1>8, <1>9, <1>10, <1>11, <1>12 DEF MediaInv

\* The claim and the invocation have answered.
LEMMA StudioIsAnswered ==
  ASSUME MediaInv, NEW s \in StudioRequests, claimAnswered(s)
  PROVE  MediaInv'
<1>1. MediaTypeOK'
  BY MediaAssumption DEF MediaInv, MediaTypeOK, MediaStatuses, ToolStates, FileStates,
     StudioPlaces, claimAnswered, StudioGoes, NoRows, NoGateway, Requests, Unused, Open,
     Final
<1>2. \A q \in Requests : ArtifactAgrees(q)'
  BY MediaAssumption DEF MediaInv, ArtifactAgrees, HandlerAgrees, RunIsAuthorized,
     MediaTypeOK, claimAnswered, StudioGoes, NoRows, NoGateway, Requests, Unused, Open,
     Final
<1>3. \A q \in StudioRequests : HandlerAgrees(q)'
  BY MediaAssumption DEF MediaInv, HandlerAgrees, MediaTypeOK, ToolStates, claimAnswered,
     StudioGoes, NoRows, NoGateway, Requests, Unused, Open, Final
<1>4. \A e \in ChatRequests : RunIsAuthorized(e)'
  BY MediaAssumption DEF MediaInv, RunIsAuthorized, MediaTypeOK, claimAnswered,
     StudioGoes, NoRows, NoGateway, Requests, Unused, Open, Final
<1>5. \A q \in Requests : FileHasRun(q)'
  BY MediaAssumption DEF MediaInv, FileHasRun, HandlerAgrees, MediaTypeOK, claimAnswered,
     StudioGoes, NoRows, NoGateway, Requests, Unused, Open, Final
<1>6. ClaimsHaveHandlers'
  BY MediaAssumption DEF MediaInv, ClaimsHaveHandlers, MediaTypeOK, claimAnswered,
     StudioGoes, NoRows, NoGateway, Requests, Unused, Open, Final
<1>7. OneIsOpen'
  BY MediaAssumption DEF MediaInv, OneIsOpen, HandlerAgrees, MediaTypeOK, claimAnswered,
     StudioGoes, NoRows, NoGateway, Requests, Unused, Open, Final
<1>8. QuarantineHolds'
  BY MediaAssumption DEF MediaInv, QuarantineHolds, OneIsOpen, MediaTypeOK, claimAnswered,
     StudioGoes, NoRows, NoGateway, Requests, Unused, Open, Final
<1>9. \A q \in StudioRequests : OwnIsHandled(q)'
  BY MediaAssumption DEF MediaInv, OwnIsHandled, HandlerAgrees, MediaTypeOK,
     claimAnswered, StudioGoes, NoRows, NoGateway, Requests, Unused, Open, Final
<1>10. Undisturbed' => \A q \in StudioRequests : LateIsQuarantined(q)' /\ GotIsOwn(q)'
  BY MediaAssumption DEF MediaInv, Undisturbed, LateIsQuarantined, GotIsOwn,
     HandlerAgrees, ArtifactAgrees, OneIsOpen, QuarantineHolds, FileHasRun, OwnIsHandled,
     MediaTypeOK, ToolStates, claimAnswered, StudioGoes, NoRows, NoGateway, Requests,
     Unused, Open, Final
<1>11. Undisturbed' => NeverAnotherTenants'
  BY MediaAssumption DEF MediaInv, Undisturbed, NeverAnotherTenants, GotIsOwn,
     ArtifactAgrees, MediaTypeOK, claimAnswered, StudioGoes, NoRows, NoGateway, Requests,
     Unused, Open, Final
<1> QED
  BY <1>1, <1>2, <1>3, <1>4, <1>5, <1>6, <1>7, <1>8, <1>9, <1>10, <1>11 DEF MediaInv

\* The invocation fails or the time is up.
LEMMA StudioGivesUp ==
  ASSUME MediaInv, NEW s \in StudioRequests, giveUp(s)
  PROVE  MediaInv'
<1>1. /\ claims' \in Seq(StudioRequests)
      /\ \A i \in 1..Len(claims') : \E j \in 1..Len(claims) : claims'[i] = claims[j]
  BY UnclaimedFacts DEF MediaInv, MediaTypeOK, giveUp
<1>2. MediaTypeOK'
  BY MediaAssumption, <1>1 DEF MediaInv, MediaTypeOK, MediaStatuses, ToolStates,
     FileStates, StudioPlaces, giveUp, StudioGoes, NoRows, NoGateway, Requests, Unused,
     Open, Final
<1>3. \A q \in Requests : ArtifactAgrees(q)'
  BY MediaAssumption DEF MediaInv, ArtifactAgrees, HandlerAgrees, RunIsAuthorized,
     MediaTypeOK, giveUp, StudioGoes, NoRows, NoGateway, Requests, Unused, Open, Final
<1>4. \A q \in StudioRequests : HandlerAgrees(q)'
  BY MediaAssumption DEF MediaInv, HandlerAgrees, MediaTypeOK, ToolStates, giveUp,
     StudioGoes, NoRows, NoGateway, Requests, Unused, Open, Final
<1>5. \A e \in ChatRequests : RunIsAuthorized(e)'
  BY MediaAssumption DEF MediaInv, RunIsAuthorized, MediaTypeOK, giveUp, StudioGoes,
     NoRows, NoGateway, Requests, Unused, Open, Final
<1>6. \A q \in Requests : FileHasRun(q)'
  BY MediaAssumption DEF MediaInv, FileHasRun, HandlerAgrees, MediaTypeOK, giveUp,
     StudioGoes, NoRows, NoGateway, Requests, Unused, Open, Final
<1>7. ClaimsHaveHandlers'
  BY MediaAssumption, <1>1 DEF MediaInv, ClaimsHaveHandlers, MediaTypeOK, giveUp,
     StudioGoes, NoRows, NoGateway, Requests, Unused, Open, Final
<1>8. OneIsOpen'
  BY MediaAssumption DEF MediaInv, OneIsOpen, HandlerAgrees, MediaTypeOK, giveUp,
     StudioGoes, NoRows, NoGateway, Requests, Unused, Open, Final
<1>9. QuarantineHolds'
  BY MediaAssumption DEF MediaInv, QuarantineHolds, OneIsOpen, MediaTypeOK, giveUp,
     StudioGoes, NoRows, NoGateway, Requests, Unused, Open, Final
<1>10. \A q \in StudioRequests : OwnIsHandled(q)'
  BY MediaAssumption DEF MediaInv, OwnIsHandled, HandlerAgrees, MediaTypeOK, giveUp,
     StudioGoes, NoRows, NoGateway, Requests, Unused, Open, Final
<1>11. Undisturbed' => \A q \in StudioRequests : LateIsQuarantined(q)' /\ GotIsOwn(q)'
  BY MediaAssumption DEF MediaInv, Undisturbed, LateIsQuarantined, GotIsOwn,
     HandlerAgrees, ArtifactAgrees, OneIsOpen, QuarantineHolds, FileHasRun, OwnIsHandled,
     MediaTypeOK, ToolStates, giveUp, StudioGoes, NoRows, NoGateway, Requests, Unused,
     Open, Final
<1>12. Undisturbed' => NeverAnotherTenants'
  BY MediaAssumption DEF MediaInv, Undisturbed, NeverAnotherTenants, GotIsOwn,
     ArtifactAgrees, MediaTypeOK, giveUp, StudioGoes, NoRows, NoGateway, Requests, Unused,
     Open, Final
<1> QED
  BY <1>2, <1>3, <1>4, <1>5, <1>6, <1>7, <1>8, <1>9, <1>10, <1>11, <1>12 DEF MediaInv

\* The artifact's transaction: the only place where a Studio row is completed.
LEMMA StudioIngests ==
  ASSUME MediaInv, NEW s \in StudioRequests, ingestStudio(s)
  PROVE  MediaInv'
<1>1. MediaTypeOK'
  BY MediaAssumption DEF MediaInv, MediaTypeOK, MediaStatuses, ToolStates, FileStates,
     StudioPlaces, ingestStudio, IsUnused, Tx, MediaFault, SetRow, StudioGoes, NoGateway,
     Requests, Unused, Open, Final
<1>2. \A q \in Requests : ArtifactAgrees(q)'
  BY MediaAssumption DEF MediaInv, ArtifactAgrees, HandlerAgrees, RunIsAuthorized,
     MediaTypeOK, ingestStudio, IsUnused, Tx, MediaFault, SetRow, StudioGoes, NoGateway,
     Requests, Unused, Open, Final
<1>3. \A q \in StudioRequests : HandlerAgrees(q)'
  BY MediaAssumption DEF MediaInv, HandlerAgrees, MediaTypeOK, ToolStates, ingestStudio,
     IsUnused, Tx, MediaFault, SetRow, StudioGoes, NoGateway, Requests, Unused, Open,
     Final
<1>4. \A e \in ChatRequests : RunIsAuthorized(e)'
  BY MediaAssumption DEF MediaInv, RunIsAuthorized, MediaTypeOK, ingestStudio, IsUnused,
     Tx, MediaFault, SetRow, StudioGoes, NoGateway, Requests, Unused, Open, Final
<1>5. \A q \in Requests : FileHasRun(q)'
  BY MediaAssumption DEF MediaInv, FileHasRun, HandlerAgrees, MediaTypeOK, ingestStudio,
     IsUnused, Tx, MediaFault, SetRow, StudioGoes, NoGateway, Requests, Unused, Open,
     Final
<1>6. ClaimsHaveHandlers'
  BY MediaAssumption DEF MediaInv, ClaimsHaveHandlers, MediaTypeOK, ingestStudio,
     IsUnused, Tx, MediaFault, SetRow, StudioGoes, NoGateway, Requests, Unused, Open,
     Final
<1>7. OneIsOpen'
  BY MediaAssumption DEF MediaInv, OneIsOpen, HandlerAgrees, MediaTypeOK, ingestStudio,
     IsUnused, Tx, MediaFault, SetRow, StudioGoes, NoGateway, Requests, Unused, Open,
     Final
<1>8. QuarantineHolds'
  BY MediaAssumption DEF MediaInv, QuarantineHolds, OneIsOpen, MediaTypeOK, ingestStudio,
     IsUnused, Tx, MediaFault, SetRow, StudioGoes, NoGateway, Requests, Unused, Open,
     Final
<1>9. \A q \in StudioRequests : OwnIsHandled(q)'
  BY MediaAssumption DEF MediaInv, OwnIsHandled, HandlerAgrees, MediaTypeOK, ingestStudio,
     IsUnused, Tx, MediaFault, SetRow, StudioGoes, NoGateway, Requests, Unused, Open,
     Final
<1>10. Undisturbed' => \A q \in StudioRequests : LateIsQuarantined(q)' /\ GotIsOwn(q)'
  BY MediaAssumption DEF MediaInv, Undisturbed, LateIsQuarantined, GotIsOwn,
     HandlerAgrees, ArtifactAgrees, OneIsOpen, QuarantineHolds, FileHasRun, OwnIsHandled,
     MediaTypeOK, ToolStates, ingestStudio, IsUnused, Tx, MediaFault, SetRow, StudioGoes,
     NoGateway, Requests, Unused, Open, Final
<1>11. Undisturbed' => NeverAnotherTenants'
  BY MediaAssumption DEF MediaInv, Undisturbed, NeverAnotherTenants, GotIsOwn,
     ArtifactAgrees, MediaTypeOK, ingestStudio, IsUnused, Tx, MediaFault, SetRow,
     StudioGoes, NoGateway, Requests, Unused, Open, Final
<1> QED
  BY <1>1, <1>2, <1>3, <1>4, <1>5, <1>6, <1>7, <1>8, <1>9, <1>10, <1>11 DEF MediaInv

\* The first half of a Studio refund: it may start the quarantine.
LEMMA StudioCompensates ==
  ASSUME MediaInv, NEW s \in StudioRequests, compensateStudioGeneration(s)
  PROVE  MediaInv'
<1>1. \/ UNCHANGED <<row, quarantined>>
      \/ /\ row[s] \in Open /\ row' = [row EXCEPT ![s] = "refund_pending"]
         /\ quarantined => quarantined'
         /\ row[s] = "provider_admitted" /\ s \in StudioRequests => quarantined'
  BY DEF MediaInv, MediaTypeOK, MediaStatuses, HandlerAgrees, compensateStudioGeneration,
     Mark, Tx, SetRow, Requests, Final, Open, Unused
<1>2. MediaTypeOK'
  BY MediaAssumption DEF MediaInv, MediaTypeOK, MediaStatuses, ToolStates, FileStates,
     StudioPlaces, compensateStudioGeneration, Mark, Tx, MediaFault, SetRow, StudioGoes,
     NoGateway, Requests, Unused, Open, Final
<1>3. \A q \in Requests : ArtifactAgrees(q)'
  BY MediaAssumption, <1>1 DEF MediaInv, MediaTypeOK, compensateStudioGeneration,
     NoGateway, ArtifactAgrees, Requests, Unused, Open, Final
<1>4. \A q \in StudioRequests : HandlerAgrees(q)'
  BY MediaAssumption DEF MediaInv, HandlerAgrees, MediaTypeOK, ToolStates,
     compensateStudioGeneration, Mark, Tx, MediaFault, SetRow, StudioGoes, NoGateway,
     Requests, Unused, Open, Final
<1>5. \A e \in ChatRequests : RunIsAuthorized(e)'
  BY MediaAssumption DEF MediaInv, RunIsAuthorized, MediaTypeOK,
     compensateStudioGeneration, Mark, Tx, MediaFault, SetRow, StudioGoes, NoGateway,
     Requests, Unused, Open, Final
<1>6. \A q \in Requests : FileHasRun(q)'
  BY MediaAssumption DEF MediaInv, FileHasRun, HandlerAgrees, MediaTypeOK,
     compensateStudioGeneration, Mark, Tx, MediaFault, SetRow, StudioGoes, NoGateway,
     Requests, Unused, Open, Final
<1>7. ClaimsHaveHandlers'
  BY MediaAssumption DEF MediaInv, ClaimsHaveHandlers, MediaTypeOK,
     compensateStudioGeneration, Mark, Tx, MediaFault, SetRow, StudioGoes, NoGateway,
     Requests, Unused, Open, Final
<1>8. OneIsOpen'
  <2>1. \A q \in StudioRequests : row'[q] \in Open => row[q] \in Open
    BY <1>1 DEF MediaInv, MediaTypeOK, Requests
  <2>2. OneIsOpen
    BY DEF MediaInv
  <2> QED
    BY <2>1, <2>2 DEF OneIsOpen
<1>9. QuarantineHolds'
  <2>1. CASE UNCHANGED <<row, quarantined>>
    BY <2>1 DEF MediaInv, QuarantineHolds
  <2>2. CASE row[s] \in Open /\ row' = [row EXCEPT ![s] = "refund_pending"]
    <3>1. \A q \in StudioRequests : row'[q] \in Unused => q = s
      BY <2>2 DEF MediaInv, MediaTypeOK, OneIsOpen, Requests, Open
    <3>2. row'[s] \notin Unused
      BY <2>2 DEF MediaInv, MediaTypeOK, Requests, Unused
    <3> QED
      BY <3>1, <3>2 DEF QuarantineHolds
  <2> QED
    BY <1>1, <2>1, <2>2
<1>10. \A q \in StudioRequests : OwnIsHandled(q)'
  BY MediaAssumption DEF MediaInv, OwnIsHandled, HandlerAgrees, MediaTypeOK,
     compensateStudioGeneration, Mark, Tx, MediaFault, SetRow, StudioGoes, NoGateway,
     Requests, Unused, Open, Final
<1>11. Undisturbed' => \A q \in StudioRequests : LateIsQuarantined(q)' /\ GotIsOwn(q)'
  BY MediaAssumption, <1>1 DEF MediaInv, MediaTypeOK, compensateStudioGeneration,
     NoGateway, Undisturbed, LateIsQuarantined, GotIsOwn, Requests, Unused, Open, Final
<1>12. Undisturbed' => NeverAnotherTenants'
  BY MediaAssumption DEF MediaInv, Undisturbed, NeverAnotherTenants, GotIsOwn,
     ArtifactAgrees, MediaTypeOK, compensateStudioGeneration, Mark, Tx, MediaFault,
     SetRow, StudioGoes, NoGateway, Requests, Unused, Open, Final
<1> QED
  BY <1>2, <1>3, <1>4, <1>5, <1>6, <1>7, <1>8, <1>9, <1>10, <1>11, <1>12 DEF MediaInv

\* The second half of a Studio refund.
LEMMA StudioReverses ==
  ASSUME MediaInv, NEW s \in StudioRequests, reverseStudio(s)
  PROVE  MediaInv'
<1>1. MediaTypeOK'
  BY MediaAssumption DEF MediaInv, MediaTypeOK, MediaStatuses, ToolStates, FileStates,
     StudioPlaces, reverseStudio, Reversed, Tx, MediaFault, SetRow, StudioGoes, NoGateway,
     Requests, Unused, Open, Final
<1>2. \A q \in Requests : ArtifactAgrees(q)'
  BY MediaAssumption DEF MediaInv, ArtifactAgrees, HandlerAgrees, RunIsAuthorized,
     MediaTypeOK, reverseStudio, Reversed, Tx, MediaFault, SetRow, StudioGoes, NoGateway,
     Requests, Unused, Open, Final
<1>3. \A q \in StudioRequests : HandlerAgrees(q)'
  BY MediaAssumption DEF MediaInv, HandlerAgrees, MediaTypeOK, ToolStates, reverseStudio,
     Reversed, Tx, MediaFault, SetRow, StudioGoes, NoGateway, Requests, Unused, Open,
     Final
<1>4. \A e \in ChatRequests : RunIsAuthorized(e)'
  BY MediaAssumption DEF MediaInv, RunIsAuthorized, MediaTypeOK, reverseStudio, Reversed,
     Tx, MediaFault, SetRow, StudioGoes, NoGateway, Requests, Unused, Open, Final
<1>5. \A q \in Requests : FileHasRun(q)'
  BY MediaAssumption DEF MediaInv, FileHasRun, HandlerAgrees, MediaTypeOK, reverseStudio,
     Reversed, Tx, MediaFault, SetRow, StudioGoes, NoGateway, Requests, Unused, Open,
     Final
<1>6. ClaimsHaveHandlers'
  BY MediaAssumption DEF MediaInv, ClaimsHaveHandlers, MediaTypeOK, reverseStudio,
     Reversed, Tx, MediaFault, SetRow, StudioGoes, NoGateway, Requests, Unused, Open,
     Final
<1>7. OneIsOpen'
  BY MediaAssumption DEF MediaInv, OneIsOpen, HandlerAgrees, MediaTypeOK, reverseStudio,
     Reversed, Tx, MediaFault, SetRow, StudioGoes, NoGateway, Requests, Unused, Open,
     Final
<1>8. QuarantineHolds'
  BY MediaAssumption DEF MediaInv, QuarantineHolds, OneIsOpen, MediaTypeOK, reverseStudio,
     Reversed, Tx, MediaFault, SetRow, StudioGoes, NoGateway, Requests, Unused, Open,
     Final
<1>9. \A q \in StudioRequests : OwnIsHandled(q)'
  BY MediaAssumption DEF MediaInv, OwnIsHandled, HandlerAgrees, MediaTypeOK,
     reverseStudio, Reversed, Tx, MediaFault, SetRow, StudioGoes, NoGateway, Requests,
     Unused, Open, Final
<1>10. Undisturbed' => \A q \in StudioRequests : LateIsQuarantined(q)' /\ GotIsOwn(q)'
  BY MediaAssumption DEF MediaInv, Undisturbed, LateIsQuarantined, GotIsOwn,
     HandlerAgrees, ArtifactAgrees, OneIsOpen, QuarantineHolds, FileHasRun, OwnIsHandled,
     MediaTypeOK, ToolStates, reverseStudio, Reversed, Tx, MediaFault, SetRow, StudioGoes,
     NoGateway, Requests, Unused, Open, Final
<1>11. Undisturbed' => NeverAnotherTenants'
  BY MediaAssumption DEF MediaInv, Undisturbed, NeverAnotherTenants, GotIsOwn,
     ArtifactAgrees, MediaTypeOK, reverseStudio, Reversed, Tx, MediaFault, SetRow,
     StudioGoes, NoGateway, Requests, Unused, Open, Final
<1> QED
  BY <1>1, <1>2, <1>3, <1>4, <1>5, <1>6, <1>7, <1>8, <1>9, <1>10, <1>11 DEF MediaInv

\* The hook before a chat tool call.
LEMMA ChatReserves ==
  ASSUME MediaInv, NEW c \in ChatRequests, reserveChatMedia(c)
  PROVE  MediaInv'
<1>1. /\ row' = row \/ row' = [row EXCEPT ![c] = "provider_admitted"]
      /\ spent' \subseteq spent \cup {c}
      /\ tool' = [tool EXCEPT ![c] = "running"] \/ tool' = [tool EXCEPT ![c] = "blocked"]
  BY DEF reserveChatMedia, Tx, SetRow
<1>2. MediaTypeOK'
  BY MediaAssumption, <1>1 DEF MediaInv, MediaTypeOK, MediaStatuses, ToolStates,
     reserveChatMedia, NoHandler, Requests, Unused, Open, Final
<1>3. \A q \in Requests : ArtifactAgrees(q)'
  BY MediaAssumption DEF MediaInv, ArtifactAgrees, HandlerAgrees, RunIsAuthorized,
     MediaTypeOK, reserveChatMedia, Tx, MediaFault, SetRow, NoHandler, Requests, Unused,
     Open, Final
<1>4. \A q \in StudioRequests : HandlerAgrees(q)'
  BY MediaAssumption DEF MediaInv, HandlerAgrees, MediaTypeOK, ToolStates,
     reserveChatMedia, Tx, MediaFault, SetRow, NoHandler, Requests, Unused, Open, Final
<1>5. \A e \in ChatRequests : RunIsAuthorized(e)'
  BY MediaAssumption DEF MediaInv, RunIsAuthorized, MediaTypeOK, reserveChatMedia, Tx,
     MediaFault, SetRow, NoHandler, Requests, Unused, Open, Final
<1>6. \A q \in Requests : FileHasRun(q)'
  BY MediaAssumption DEF MediaInv, FileHasRun, HandlerAgrees, MediaTypeOK,
     reserveChatMedia, Tx, MediaFault, SetRow, NoHandler, Requests, Unused, Open, Final
<1>7. ClaimsHaveHandlers'
  BY MediaAssumption DEF MediaInv, ClaimsHaveHandlers, MediaTypeOK, reserveChatMedia, Tx,
     MediaFault, SetRow, NoHandler, Requests, Unused, Open, Final
<1>8. OneIsOpen'
  BY MediaAssumption DEF MediaInv, OneIsOpen, HandlerAgrees, MediaTypeOK,
     reserveChatMedia, Tx, MediaFault, SetRow, NoHandler, Requests, Unused, Open, Final
<1>9. QuarantineHolds'
  BY MediaAssumption DEF MediaInv, QuarantineHolds, OneIsOpen, MediaTypeOK,
     reserveChatMedia, Tx, MediaFault, SetRow, NoHandler, Requests, Unused, Open, Final
<1>10. \A q \in StudioRequests : OwnIsHandled(q)'
  BY MediaAssumption DEF MediaInv, OwnIsHandled, HandlerAgrees, MediaTypeOK,
     reserveChatMedia, Tx, MediaFault, SetRow, NoHandler, Requests, Unused, Open, Final
<1>11. Undisturbed' => \A q \in StudioRequests : LateIsQuarantined(q)' /\ GotIsOwn(q)'
  BY MediaAssumption DEF MediaInv, Undisturbed, LateIsQuarantined, GotIsOwn,
     HandlerAgrees, ArtifactAgrees, OneIsOpen, QuarantineHolds, FileHasRun, OwnIsHandled,
     MediaTypeOK, ToolStates, reserveChatMedia, Tx, MediaFault, SetRow, NoHandler,
     Requests, Unused, Open, Final
<1>12. Undisturbed' => NeverAnotherTenants'
  BY MediaAssumption DEF MediaInv, Undisturbed, NeverAnotherTenants, GotIsOwn,
     ArtifactAgrees, MediaTypeOK, reserveChatMedia, Tx, MediaFault, SetRow, NoHandler,
     Requests, Unused, Open, Final
<1> QED
  BY <1>2, <1>3, <1>4, <1>5, <1>6, <1>7, <1>8, <1>9, <1>10, <1>11, <1>12 DEF MediaInv

\* The hook after a failed chat tool call.
LEMMA ChatToolFails ==
  ASSUME MediaInv, NEW c \in ChatRequests, toolFails(c)
  PROVE  MediaInv'
<1>1. MediaTypeOK'
  BY MediaAssumption DEF MediaInv, MediaTypeOK, MediaStatuses, ToolStates, FileStates,
     StudioPlaces, toolFails, NoRows, NoHandler, Requests, Unused, Open, Final
<1>2. \A q \in Requests : ArtifactAgrees(q)'
  BY MediaAssumption DEF MediaInv, ArtifactAgrees, HandlerAgrees, RunIsAuthorized,
     MediaTypeOK, toolFails, NoRows, NoHandler, Requests, Unused, Open, Final
<1>3. \A q \in StudioRequests : HandlerAgrees(q)'
  BY MediaAssumption DEF MediaInv, HandlerAgrees, MediaTypeOK, ToolStates, toolFails,
     NoRows, NoHandler, Requests, Unused, Open, Final
<1>4. \A e \in ChatRequests : RunIsAuthorized(e)'
  BY MediaAssumption DEF MediaInv, RunIsAuthorized, MediaTypeOK, toolFails, NoRows,
     NoHandler, Requests, Unused, Open, Final
<1>5. \A q \in Requests : FileHasRun(q)'
  BY MediaAssumption DEF MediaInv, FileHasRun, HandlerAgrees, MediaTypeOK, toolFails,
     NoRows, NoHandler, Requests, Unused, Open, Final
<1>6. ClaimsHaveHandlers'
  BY MediaAssumption DEF MediaInv, ClaimsHaveHandlers, MediaTypeOK, toolFails, NoRows,
     NoHandler, Requests, Unused, Open, Final
<1>7. OneIsOpen'
  BY MediaAssumption DEF MediaInv, OneIsOpen, HandlerAgrees, MediaTypeOK, toolFails,
     NoRows, NoHandler, Requests, Unused, Open, Final
<1>8. QuarantineHolds'
  BY MediaAssumption DEF MediaInv, QuarantineHolds, OneIsOpen, MediaTypeOK, toolFails,
     NoRows, NoHandler, Requests, Unused, Open, Final
<1>9. \A q \in StudioRequests : OwnIsHandled(q)'
  BY MediaAssumption DEF MediaInv, OwnIsHandled, HandlerAgrees, MediaTypeOK, toolFails,
     NoRows, NoHandler, Requests, Unused, Open, Final
<1>10. Undisturbed' => \A q \in StudioRequests : LateIsQuarantined(q)' /\ GotIsOwn(q)'
  BY MediaAssumption DEF MediaInv, Undisturbed, LateIsQuarantined, GotIsOwn,
     HandlerAgrees, ArtifactAgrees, OneIsOpen, QuarantineHolds, FileHasRun, OwnIsHandled,
     MediaTypeOK, ToolStates, toolFails, NoRows, NoHandler, Requests, Unused, Open, Final
<1>11. Undisturbed' => NeverAnotherTenants'
  BY MediaAssumption DEF MediaInv, Undisturbed, NeverAnotherTenants, GotIsOwn,
     ArtifactAgrees, MediaTypeOK, toolFails, NoRows, NoHandler, Requests, Unused, Open,
     Final
<1> QED
  BY <1>1, <1>2, <1>3, <1>4, <1>5, <1>6, <1>7, <1>8, <1>9, <1>10, <1>11 DEF MediaInv

\* Its callback.
LEMMA ChatCompensates ==
  ASSUME MediaInv, NEW c \in ChatRequests, compensateChatMedia(c)
  PROVE  MediaInv'
<1>1. \/ UNCHANGED <<row, quarantined>>
      \/ /\ row[c] \in Open /\ row' = [row EXCEPT ![c] = "refund_pending"]
         /\ quarantined => quarantined'
         /\ row[c] = "provider_admitted" /\ c \in StudioRequests => quarantined'
  BY DEF MediaInv, MediaTypeOK, MediaStatuses, RunIsAuthorized, compensateChatMedia, Mark,
     Tx, SetRow, Requests, Final, Open, Unused
<1>2. MediaTypeOK'
  BY MediaAssumption DEF MediaInv, MediaTypeOK, MediaStatuses, ToolStates, FileStates,
     StudioPlaces, compensateChatMedia, Mark, Tx, MediaFault, SetRow, NoHandler, Requests,
     Unused, Open, Final
<1>3. \A q \in Requests : ArtifactAgrees(q)'
  BY MediaAssumption, <1>1 DEF MediaInv, MediaTypeOK, compensateChatMedia, NoHandler,
     ArtifactAgrees, Requests, Unused, Open, Final
<1>4. \A q \in StudioRequests : HandlerAgrees(q)'
  BY MediaAssumption DEF MediaInv, HandlerAgrees, MediaTypeOK, ToolStates,
     compensateChatMedia, Mark, Tx, MediaFault, SetRow, NoHandler, Requests, Unused, Open,
     Final
<1>5. \A e \in ChatRequests : RunIsAuthorized(e)'
  BY MediaAssumption DEF MediaInv, RunIsAuthorized, MediaTypeOK, compensateChatMedia,
     Mark, Tx, MediaFault, SetRow, NoHandler, Requests, Unused, Open, Final
<1>6. \A q \in Requests : FileHasRun(q)'
  BY MediaAssumption DEF MediaInv, FileHasRun, HandlerAgrees, MediaTypeOK,
     compensateChatMedia, Mark, Tx, MediaFault, SetRow, NoHandler, Requests, Unused, Open,
     Final
<1>7. ClaimsHaveHandlers'
  BY MediaAssumption DEF MediaInv, ClaimsHaveHandlers, MediaTypeOK, compensateChatMedia,
     Mark, Tx, MediaFault, SetRow, NoHandler, Requests, Unused, Open, Final
<1>8. OneIsOpen'
  BY MediaAssumption DEF MediaInv, OneIsOpen, HandlerAgrees, MediaTypeOK,
     compensateChatMedia, Mark, Tx, MediaFault, SetRow, NoHandler, Requests, Unused, Open,
     Final
<1>9. QuarantineHolds'
  BY MediaAssumption DEF MediaInv, QuarantineHolds, OneIsOpen, MediaTypeOK,
     compensateChatMedia, Mark, Tx, MediaFault, SetRow, NoHandler, Requests, Unused, Open,
     Final
<1>10. \A q \in StudioRequests : OwnIsHandled(q)'
  BY MediaAssumption DEF MediaInv, OwnIsHandled, HandlerAgrees, MediaTypeOK,
     compensateChatMedia, Mark, Tx, MediaFault, SetRow, NoHandler, Requests, Unused, Open,
     Final
<1>11. Undisturbed' => \A q \in StudioRequests : LateIsQuarantined(q)' /\ GotIsOwn(q)'
  BY MediaAssumption DEF MediaInv, Undisturbed, LateIsQuarantined, GotIsOwn,
     HandlerAgrees, ArtifactAgrees, OneIsOpen, QuarantineHolds, FileHasRun, OwnIsHandled,
     MediaTypeOK, ToolStates, compensateChatMedia, Mark, Tx, MediaFault, SetRow,
     NoHandler, Requests, Unused, Open, Final
<1>12. Undisturbed' => NeverAnotherTenants'
  BY MediaAssumption DEF MediaInv, Undisturbed, NeverAnotherTenants, GotIsOwn,
     ArtifactAgrees, MediaTypeOK, compensateChatMedia, Mark, Tx, MediaFault, SetRow,
     NoHandler, Requests, Unused, Open, Final
<1> QED
  BY <1>2, <1>3, <1>4, <1>5, <1>6, <1>7, <1>8, <1>9, <1>10, <1>11, <1>12 DEF MediaInv

\* A sync sights a transcript's attachment.
LEMMA ChatSights ==
  ASSUME MediaInv, NEW y \in Syncs, NEW c \in ChatRequests, syncSession(y, c)
  PROVE  MediaInv'
<1>1. MediaTypeOK'
  BY MediaAssumption DEF MediaInv, MediaTypeOK, MediaStatuses, ToolStates, FileStates,
     StudioPlaces, syncSession, NoRows, NoGateway, NoHandler, Requests, Unused, Open,
     Final
<1>2. \A q \in Requests : ArtifactAgrees(q)'
  BY MediaAssumption DEF MediaInv, ArtifactAgrees, HandlerAgrees, RunIsAuthorized,
     MediaTypeOK, syncSession, NoRows, NoGateway, NoHandler, Requests, Unused, Open, Final
<1>3. \A q \in StudioRequests : HandlerAgrees(q)'
  BY MediaAssumption DEF MediaInv, HandlerAgrees, MediaTypeOK, ToolStates, syncSession,
     NoRows, NoGateway, NoHandler, Requests, Unused, Open, Final
<1>4. \A e \in ChatRequests : RunIsAuthorized(e)'
  BY MediaAssumption DEF MediaInv, RunIsAuthorized, MediaTypeOK, syncSession, NoRows,
     NoGateway, NoHandler, Requests, Unused, Open, Final
<1>5. \A q \in Requests : FileHasRun(q)'
  BY MediaAssumption DEF MediaInv, FileHasRun, HandlerAgrees, MediaTypeOK, syncSession,
     NoRows, NoGateway, NoHandler, Requests, Unused, Open, Final
<1>6. ClaimsHaveHandlers'
  BY MediaAssumption DEF MediaInv, ClaimsHaveHandlers, MediaTypeOK, syncSession, NoRows,
     NoGateway, NoHandler, Requests, Unused, Open, Final
<1>7. OneIsOpen'
  BY MediaAssumption DEF MediaInv, OneIsOpen, HandlerAgrees, MediaTypeOK, syncSession,
     NoRows, NoGateway, NoHandler, Requests, Unused, Open, Final
<1>8. QuarantineHolds'
  BY MediaAssumption DEF MediaInv, QuarantineHolds, OneIsOpen, MediaTypeOK, syncSession,
     NoRows, NoGateway, NoHandler, Requests, Unused, Open, Final
<1>9. \A q \in StudioRequests : OwnIsHandled(q)'
  BY MediaAssumption DEF MediaInv, OwnIsHandled, HandlerAgrees, MediaTypeOK, syncSession,
     NoRows, NoGateway, NoHandler, Requests, Unused, Open, Final
<1>10. Undisturbed' => \A q \in StudioRequests : LateIsQuarantined(q)' /\ GotIsOwn(q)'
  BY MediaAssumption DEF MediaInv, Undisturbed, LateIsQuarantined, GotIsOwn,
     HandlerAgrees, ArtifactAgrees, OneIsOpen, QuarantineHolds, FileHasRun, OwnIsHandled,
     MediaTypeOK, ToolStates, syncSession, NoRows, NoGateway, NoHandler, Requests, Unused,
     Open, Final
<1>11. Undisturbed' => NeverAnotherTenants'
  BY MediaAssumption DEF MediaInv, Undisturbed, NeverAnotherTenants, GotIsOwn,
     ArtifactAgrees, MediaTypeOK, syncSession, NoRows, NoGateway, NoHandler, Requests,
     Unused, Open, Final
<1> QED
  BY <1>1, <1>2, <1>3, <1>4, <1>5, <1>6, <1>7, <1>8, <1>9, <1>10, <1>11 DEF MediaInv

\* The attachment's handler.
LEMMA ChatIngests ==
  ASSUME MediaInv, NEW y \in Syncs, ingestSighting(y)
  PROVE  MediaInv'
<1>1. MediaTypeOK'
  BY MediaAssumption DEF MediaInv, MediaTypeOK, MediaStatuses, ToolStates, FileStates,
     StudioPlaces, ingestSighting, MediaFault, SetRow, NoHandler, Requests, Unused, Open,
     Final
<1>2. \A q \in Requests : ArtifactAgrees(q)'
  BY MediaAssumption DEF MediaInv, ArtifactAgrees, HandlerAgrees, RunIsAuthorized,
     MediaTypeOK, ingestSighting, MediaFault, SetRow, NoHandler, Requests, Unused, Open,
     Final
<1>3. \A q \in StudioRequests : HandlerAgrees(q)'
  BY MediaAssumption DEF MediaInv, HandlerAgrees, MediaTypeOK, ToolStates, ingestSighting,
     MediaFault, SetRow, NoHandler, Requests, Unused, Open, Final
<1>4. \A e \in ChatRequests : RunIsAuthorized(e)'
  BY MediaAssumption DEF MediaInv, RunIsAuthorized, MediaTypeOK, ingestSighting,
     MediaFault, SetRow, NoHandler, Requests, Unused, Open, Final
<1>5. \A q \in Requests : FileHasRun(q)'
  BY MediaAssumption DEF MediaInv, FileHasRun, HandlerAgrees, MediaTypeOK, ingestSighting,
     MediaFault, SetRow, NoHandler, Requests, Unused, Open, Final
<1>6. ClaimsHaveHandlers'
  BY MediaAssumption DEF MediaInv, ClaimsHaveHandlers, MediaTypeOK, ingestSighting,
     MediaFault, SetRow, NoHandler, Requests, Unused, Open, Final
<1>7. OneIsOpen'
  BY MediaAssumption DEF MediaInv, OneIsOpen, HandlerAgrees, MediaTypeOK, ingestSighting,
     MediaFault, SetRow, NoHandler, Requests, Unused, Open, Final
<1>8. QuarantineHolds'
  BY MediaAssumption DEF MediaInv, QuarantineHolds, OneIsOpen, MediaTypeOK,
     ingestSighting, MediaFault, SetRow, NoHandler, Requests, Unused, Open, Final
<1>9. \A q \in StudioRequests : OwnIsHandled(q)'
  BY MediaAssumption DEF MediaInv, OwnIsHandled, HandlerAgrees, MediaTypeOK,
     ingestSighting, MediaFault, SetRow, NoHandler, Requests, Unused, Open, Final
<1>10. Undisturbed' => \A q \in StudioRequests : LateIsQuarantined(q)' /\ GotIsOwn(q)'
  <2>1. UNCHANGED tool /\ UNCHANGED got /\ (quarantined' <=> quarantined)
    BY DEF ingestSighting, NoHandler
  <2>2. \A q \in StudioRequests :
          row'[q] = row[q] /\ file'[q] = file[q] /\ creation'[q] = creation[q]
    BY MediaAssumption DEF MediaInv, MediaTypeOK, ingestSighting, SetRow, Requests
  <2>3. Undisturbed' => Undisturbed
    BY <2>2 DEF Undisturbed
  <2> QED
    BY <2>1, <2>2, <2>3 DEF MediaInv, LateIsQuarantined, GotIsOwn
<1>11. Undisturbed' => NeverAnotherTenants'
  BY MediaAssumption DEF MediaInv, Undisturbed, NeverAnotherTenants, GotIsOwn,
     ArtifactAgrees, MediaTypeOK, ingestSighting, MediaFault, SetRow, NoHandler, Requests,
     Unused, Open, Final
<1> QED
  BY <1>1, <1>2, <1>3, <1>4, <1>5, <1>6, <1>7, <1>8, <1>9, <1>10, <1>11 DEF MediaInv

\* The reapers.
LEMMA ReaperActs ==
  ASSUME MediaInv, NEW r \in Requests, reap(r)
  PROVE  MediaInv'
<1>1. \/ /\ row' = [row EXCEPT ![r] = "error"] /\ row[r] = "refund_pending"
         /\ UNCHANGED quarantined
      \/ UNCHANGED <<row, quarantined>>
      \/ /\ row[r] \in Open /\ row' = [row EXCEPT ![r] = "refund_pending"]
         /\ quarantined => quarantined'
         /\ row[r] = "provider_admitted" /\ r \in StudioRequests => quarantined'
  BY DEF reap, IsReapable, Reversed, Mark, Tx, SetRow
<1>2. MediaTypeOK'
  BY MediaAssumption DEF MediaInv, MediaTypeOK, MediaStatuses, ToolStates, FileStates,
     StudioPlaces, reap, IsReapable, Mark, Reversed, Tx, MediaFault, SetRow, NoGateway,
     NoHandler, Requests, Unused, Open, Final
<1>3. \A q \in Requests : ArtifactAgrees(q)'
  BY MediaAssumption DEF MediaInv, ArtifactAgrees, HandlerAgrees, RunIsAuthorized,
     MediaTypeOK, reap, IsReapable, Mark, Reversed, Tx, MediaFault, SetRow, NoGateway,
     NoHandler, Requests, Unused, Open, Final
<1>4. \A q \in StudioRequests : HandlerAgrees(q)'
  BY MediaAssumption DEF MediaInv, HandlerAgrees, MediaTypeOK, ToolStates, reap,
     IsReapable, Mark, Reversed, Tx, MediaFault, SetRow, NoGateway, NoHandler, Requests,
     Unused, Open, Final
<1>5. \A e \in ChatRequests : RunIsAuthorized(e)'
  BY MediaAssumption DEF MediaInv, RunIsAuthorized, MediaTypeOK, reap, IsReapable, Mark,
     Reversed, Tx, MediaFault, SetRow, NoGateway, NoHandler, Requests, Unused, Open, Final
<1>6. \A q \in Requests : FileHasRun(q)'
  BY MediaAssumption DEF MediaInv, FileHasRun, HandlerAgrees, MediaTypeOK, reap,
     IsReapable, Mark, Reversed, Tx, MediaFault, SetRow, NoGateway, NoHandler, Requests,
     Unused, Open, Final
<1>7. ClaimsHaveHandlers'
  BY MediaAssumption DEF MediaInv, ClaimsHaveHandlers, MediaTypeOK, reap, IsReapable,
     Mark, Reversed, Tx, MediaFault, SetRow, NoGateway, NoHandler, Requests, Unused, Open,
     Final
<1>8. OneIsOpen'
  BY MediaAssumption DEF MediaInv, OneIsOpen, HandlerAgrees, MediaTypeOK, reap,
     IsReapable, Mark, Reversed, Tx, MediaFault, SetRow, NoGateway, NoHandler, Requests,
     Unused, Open, Final
<1>9. QuarantineHolds'
  BY MediaAssumption DEF MediaInv, QuarantineHolds, OneIsOpen, MediaTypeOK, reap,
     IsReapable, Mark, Reversed, Tx, MediaFault, SetRow, NoGateway, NoHandler, Requests,
     Unused, Open, Final
<1>10. \A q \in StudioRequests : OwnIsHandled(q)'
  BY MediaAssumption DEF MediaInv, OwnIsHandled, HandlerAgrees, MediaTypeOK, reap,
     IsReapable, Mark, Reversed, Tx, MediaFault, SetRow, NoGateway, NoHandler, Requests,
     Unused, Open, Final
<1>11. Undisturbed' => \A q \in StudioRequests : LateIsQuarantined(q)' /\ GotIsOwn(q)'
  BY MediaAssumption, <1>1 DEF MediaInv, MediaTypeOK, reap, NoGateway, NoHandler,
     Undisturbed, LateIsQuarantined, GotIsOwn, Requests, Unused, Open, Final
<1>12. Undisturbed' => NeverAnotherTenants'
  BY MediaAssumption DEF MediaInv, Undisturbed, NeverAnotherTenants, GotIsOwn,
     ArtifactAgrees, MediaTypeOK, reap, IsReapable, Mark, Reversed, Tx, MediaFault,
     SetRow, NoGateway, NoHandler, Requests, Unused, Open, Final
<1> QED
  BY <1>2, <1>3, <1>4, <1>5, <1>6, <1>7, <1>8, <1>9, <1>10, <1>11, <1>12 DEF MediaInv

\* A run writes its file.
LEMMA OutputLands ==
  ASSUME MediaInv, NEW r \in Requests, outputLands(r)
  PROVE  MediaInv'
<1>1. MediaTypeOK'
  BY MediaAssumption DEF MediaInv, MediaTypeOK, MediaStatuses, ToolStates, FileStates,
     StudioPlaces, outputLands, NoRows, NoHandler, Requests, Unused, Open, Final
<1>2. \A q \in Requests : ArtifactAgrees(q)'
  BY MediaAssumption DEF MediaInv, ArtifactAgrees, HandlerAgrees, RunIsAuthorized,
     MediaTypeOK, outputLands, NoRows, NoHandler, Requests, Unused, Open, Final
<1>3. \A q \in StudioRequests : HandlerAgrees(q)'
  BY MediaAssumption DEF MediaInv, HandlerAgrees, MediaTypeOK, ToolStates, outputLands,
     NoRows, NoHandler, Requests, Unused, Open, Final
<1>4. \A e \in ChatRequests : RunIsAuthorized(e)'
  BY MediaAssumption DEF MediaInv, RunIsAuthorized, MediaTypeOK, outputLands, NoRows,
     NoHandler, Requests, Unused, Open, Final
<1>5. \A q \in Requests : FileHasRun(q)'
  BY MediaAssumption DEF MediaInv, FileHasRun, HandlerAgrees, MediaTypeOK, outputLands,
     NoRows, NoHandler, Requests, Unused, Open, Final
<1>6. ClaimsHaveHandlers'
  BY MediaAssumption DEF MediaInv, ClaimsHaveHandlers, MediaTypeOK, outputLands, NoRows,
     NoHandler, Requests, Unused, Open, Final
<1>7. OneIsOpen'
  BY MediaAssumption DEF MediaInv, OneIsOpen, HandlerAgrees, MediaTypeOK, outputLands,
     NoRows, NoHandler, Requests, Unused, Open, Final
<1>8. QuarantineHolds'
  BY MediaAssumption DEF MediaInv, QuarantineHolds, OneIsOpen, MediaTypeOK, outputLands,
     NoRows, NoHandler, Requests, Unused, Open, Final
<1>9. \A q \in StudioRequests : OwnIsHandled(q)'
  BY MediaAssumption DEF MediaInv, OwnIsHandled, HandlerAgrees, MediaTypeOK, outputLands,
     NoRows, NoHandler, Requests, Unused, Open, Final
<1>10. Undisturbed' => \A q \in StudioRequests : LateIsQuarantined(q)' /\ GotIsOwn(q)'
  BY MediaAssumption DEF MediaInv, Undisturbed, LateIsQuarantined, GotIsOwn,
     HandlerAgrees, ArtifactAgrees, OneIsOpen, QuarantineHolds, FileHasRun, OwnIsHandled,
     MediaTypeOK, ToolStates, outputLands, NoRows, NoHandler, Requests, Unused, Open,
     Final
<1>11. Undisturbed' => NeverAnotherTenants'
  BY MediaAssumption DEF MediaInv, Undisturbed, NeverAnotherTenants, GotIsOwn,
     ArtifactAgrees, MediaTypeOK, outputLands, NoRows, NoHandler, Requests, Unused, Open,
     Final
<1> QED
  BY <1>1, <1>2, <1>3, <1>4, <1>5, <1>6, <1>7, <1>8, <1>9, <1>10, <1>11 DEF MediaInv

\* The watcher asks for the quarantine.
LEMMA WatcherChecks ==
  ASSUME MediaInv, NEW r \in Requests, checkQuarantine(r)
  PROVE  MediaInv'
<1>1. MediaTypeOK'
  BY MediaAssumption DEF MediaInv, MediaTypeOK, MediaStatuses, ToolStates, FileStates,
     StudioPlaces, checkQuarantine, MediaFault, NoRows, NoHandler, Requests, Unused, Open,
     Final
<1>2. \A q \in Requests : ArtifactAgrees(q)'
  BY MediaAssumption DEF MediaInv, ArtifactAgrees, HandlerAgrees, RunIsAuthorized,
     MediaTypeOK, checkQuarantine, MediaFault, NoRows, NoHandler, Requests, Unused, Open,
     Final
<1>3. \A q \in StudioRequests : HandlerAgrees(q)'
  BY MediaAssumption DEF MediaInv, HandlerAgrees, MediaTypeOK, ToolStates,
     checkQuarantine, MediaFault, NoRows, NoHandler, Requests, Unused, Open, Final
<1>4. \A e \in ChatRequests : RunIsAuthorized(e)'
  BY MediaAssumption DEF MediaInv, RunIsAuthorized, MediaTypeOK, checkQuarantine,
     MediaFault, NoRows, NoHandler, Requests, Unused, Open, Final
<1>5. \A q \in Requests : FileHasRun(q)'
  BY MediaAssumption DEF MediaInv, FileHasRun, HandlerAgrees, MediaTypeOK,
     checkQuarantine, MediaFault, NoRows, NoHandler, Requests, Unused, Open, Final
<1>6. ClaimsHaveHandlers'
  BY MediaAssumption DEF MediaInv, ClaimsHaveHandlers, MediaTypeOK, checkQuarantine,
     MediaFault, NoRows, NoHandler, Requests, Unused, Open, Final
<1>7. OneIsOpen'
  BY MediaAssumption DEF MediaInv, OneIsOpen, HandlerAgrees, MediaTypeOK, checkQuarantine,
     MediaFault, NoRows, NoHandler, Requests, Unused, Open, Final
<1>8. QuarantineHolds'
  BY MediaAssumption DEF MediaInv, QuarantineHolds, OneIsOpen, MediaTypeOK,
     checkQuarantine, MediaFault, NoRows, NoHandler, Requests, Unused, Open, Final
<1>9. \A q \in StudioRequests : OwnIsHandled(q)'
  BY MediaAssumption DEF MediaInv, OwnIsHandled, HandlerAgrees, MediaTypeOK,
     checkQuarantine, MediaFault, NoRows, NoHandler, Requests, Unused, Open, Final
<1>10. Undisturbed' => \A q \in StudioRequests : LateIsQuarantined(q)' /\ GotIsOwn(q)'
  BY MediaAssumption DEF MediaInv, Undisturbed, LateIsQuarantined, GotIsOwn,
     HandlerAgrees, ArtifactAgrees, OneIsOpen, QuarantineHolds, FileHasRun, OwnIsHandled,
     MediaTypeOK, ToolStates, checkQuarantine, MediaFault, NoRows, NoHandler, Requests,
     Unused, Open, Final
<1>11. Undisturbed' => NeverAnotherTenants'
  BY MediaAssumption DEF MediaInv, Undisturbed, NeverAnotherTenants, GotIsOwn,
     ArtifactAgrees, MediaTypeOK, checkQuarantine, MediaFault, NoRows, NoHandler,
     Requests, Unused, Open, Final
<1> QED
  BY <1>1, <1>2, <1>3, <1>4, <1>5, <1>6, <1>7, <1>8, <1>9, <1>10, <1>11 DEF MediaInv

\* The file goes to the first claim: while nothing is quarantined that is the
\* one open request, whose own file it is, or a chat run's file.
LEMMA WatcherRoutes ==
  ASSUME MediaInv, NEW r \in Requests, routeFile(r)
  PROVE  MediaInv'
<1>1. /\ claims' \in Seq(StudioRequests)
      /\ \A i \in 1..Len(claims') : \E j \in 1..Len(claims) : claims'[i] = claims[j]
  <2>1. CASE UNCHANGED claims
    BY <2>1 DEF MediaInv, MediaTypeOK
  <2>2. CASE claims # <<>> /\ claims' = Tail(claims)
    BY <2>2 DEF MediaInv, MediaTypeOK
  <2> QED
    BY <2>1, <2>2 DEF routeFile
<1>2. /\ UNCHANGED <<row, spent, quarantined, creation, tool, studio, sighting>>
      /\ file[r] = "checked" /\ file' = [file EXCEPT ![r] = "handled"]
      /\ \/ UNCHANGED <<claims, got>>
         \/ \E h \in StudioRequests : studio[h] # "idle" /\ got' = [got EXCEPT ![h] = r]
  <2>1. CASE claims = <<>>
    BY <2>1 DEF routeFile, NoRows
  <2>2. CASE claims # <<>>
    <3>1. 1 \in 1..Len(claims) /\ Head(claims) = claims[1] /\ Head(claims) \in StudioRequests
      BY <2>2 DEF MediaInv, MediaTypeOK
    <3>2. studio[Head(claims)] # "idle"
      BY <3>1 DEF MediaInv, ClaimsHaveHandlers
    <3> QED
      BY <2>2, <3>1, <3>2 DEF routeFile, NoRows
  <2> QED
    BY <2>1, <2>2
<1>3. MediaTypeOK'
  BY MediaAssumption, <1>1, <1>2 DEF MediaInv, MediaTypeOK, MediaStatuses, ToolStates,
     FileStates, StudioPlaces, Requests, Unused, Open, Final
<1>4. \A q \in Requests : ArtifactAgrees(q)'
  BY MediaAssumption DEF MediaInv, ArtifactAgrees, HandlerAgrees, RunIsAuthorized,
     MediaTypeOK, routeFile, NoRows, Requests, Unused, Open, Final
<1>5. \A q \in StudioRequests : HandlerAgrees(q)'
  BY MediaAssumption, <1>2 DEF MediaInv, MediaTypeOK, HandlerAgrees, Requests, Unused,
     Open, Final
<1>6. \A e \in ChatRequests : RunIsAuthorized(e)'
  BY MediaAssumption DEF MediaInv, RunIsAuthorized, MediaTypeOK, routeFile, NoRows,
     Requests, Unused, Open, Final
<1>7. \A q \in Requests : FileHasRun(q)'
  BY MediaAssumption DEF MediaInv, FileHasRun, HandlerAgrees, MediaTypeOK, routeFile,
     NoRows, Requests, Unused, Open, Final
<1>8. ClaimsHaveHandlers'
  BY MediaAssumption, <1>1 DEF MediaInv, ClaimsHaveHandlers, MediaTypeOK, routeFile,
     NoRows, Requests, Unused, Open, Final
<1>9. OneIsOpen'
  BY MediaAssumption DEF MediaInv, OneIsOpen, HandlerAgrees, MediaTypeOK, routeFile,
     NoRows, Requests, Unused, Open, Final
<1>10. QuarantineHolds'
  BY MediaAssumption DEF MediaInv, QuarantineHolds, OneIsOpen, MediaTypeOK, routeFile,
     NoRows, Requests, Unused, Open, Final
<1>11. \A q \in StudioRequests : OwnIsHandled(q)'
  BY MediaAssumption DEF MediaInv, OwnIsHandled, HandlerAgrees, MediaTypeOK, routeFile,
     NoRows, Requests, Unused, Open, Final
<1>12. Undisturbed' => \A q \in StudioRequests : LateIsQuarantined(q)' /\ GotIsOwn(q)'
  BY MediaAssumption, <1>2, SMTT(20) DEF MediaInv, MediaTypeOK, Undisturbed, LateIsQuarantined,
     GotIsOwn, HandlerAgrees, OneIsOpen, QuarantineHolds, FileHasRun, Requests, Unused,
     Open, Final
<1>13. Undisturbed' => NeverAnotherTenants'
  BY MediaAssumption DEF MediaInv, Undisturbed, NeverAnotherTenants, GotIsOwn,
     ArtifactAgrees, MediaTypeOK, routeFile, NoRows, Requests, Unused, Open, Final
<1> QED
  BY <1>3, <1>4, <1>5, <1>6, <1>7, <1>8, <1>9, <1>10, <1>11, <1>12, <1>13 DEF MediaInv

\* The process restarts.
LEMMA MediaRestarts ==
  ASSUME MediaInv, restart
  PROVE  MediaInv'
<1>1. MediaTypeOK'
  BY MediaAssumption DEF MediaInv, MediaTypeOK, MediaStatuses, ToolStates, FileStates,
     StudioPlaces, restart, MediaFault, NoRows, Requests, Unused, Open, Final
<1>2. \A q \in Requests : ArtifactAgrees(q)'
  BY MediaAssumption DEF MediaInv, ArtifactAgrees, HandlerAgrees, RunIsAuthorized,
     MediaTypeOK, restart, MediaFault, NoRows, Requests, Unused, Open, Final
<1>3. \A q \in StudioRequests : HandlerAgrees(q)'
  BY MediaAssumption DEF MediaInv, HandlerAgrees, MediaTypeOK, ToolStates, restart,
     MediaFault, NoRows, Requests, Unused, Open, Final
<1>4. \A e \in ChatRequests : RunIsAuthorized(e)'
  BY MediaAssumption DEF MediaInv, RunIsAuthorized, MediaTypeOK, restart, MediaFault,
     NoRows, Requests, Unused, Open, Final
<1>5. \A q \in Requests : FileHasRun(q)'
  BY MediaAssumption DEF MediaInv, FileHasRun, HandlerAgrees, MediaTypeOK, restart,
     MediaFault, NoRows, Requests, Unused, Open, Final
<1>6. ClaimsHaveHandlers'
  BY MediaAssumption DEF MediaInv, ClaimsHaveHandlers, MediaTypeOK, restart, MediaFault,
     NoRows, Requests, Unused, Open, Final
<1>7. OneIsOpen'
  BY MediaAssumption DEF MediaInv, OneIsOpen, HandlerAgrees, MediaTypeOK, restart,
     MediaFault, NoRows, Requests, Unused, Open, Final
<1>8. QuarantineHolds'
  BY MediaAssumption DEF MediaInv, QuarantineHolds, OneIsOpen, MediaTypeOK, restart,
     MediaFault, NoRows, Requests, Unused, Open, Final
<1>9. \A q \in StudioRequests : OwnIsHandled(q)'
  BY MediaAssumption DEF MediaInv, OwnIsHandled, HandlerAgrees, MediaTypeOK, restart,
     MediaFault, NoRows, Requests, Unused, Open, Final
<1>10. Undisturbed' => \A q \in StudioRequests : LateIsQuarantined(q)' /\ GotIsOwn(q)'
  BY MediaAssumption DEF MediaInv, Undisturbed, LateIsQuarantined, GotIsOwn,
     HandlerAgrees, ArtifactAgrees, OneIsOpen, QuarantineHolds, FileHasRun, OwnIsHandled,
     MediaTypeOK, ToolStates, restart, MediaFault, NoRows, Requests, Unused, Open, Final
<1>11. Undisturbed' => NeverAnotherTenants'
  BY MediaAssumption DEF MediaInv, Undisturbed, NeverAnotherTenants, GotIsOwn,
     ArtifactAgrees, MediaTypeOK, restart, MediaFault, NoRows, Requests, Unused, Open,
     Final
<1> QED
  BY <1>1, <1>2, <1>3, <1>4, <1>5, <1>6, <1>7, <1>8, <1>9, <1>10, <1>11 DEF MediaInv

\* The initial states.
LEMMA MediaInitOK ==
  ASSUME MediaInit
  PROVE  MediaInv
<1>1. MediaTypeOK
  <2>1. <<>> \in Seq(StudioRequests)
    OBVIOUS
  <2> QED
    BY <2>1 DEF MediaInit, MediaTypeOK, MediaStatuses, ToolStates, FileStates, StudioPlaces
<1>2. /\ \A r \in Requests : ArtifactAgrees(r) /\ FileHasRun(r)
      /\ \A s \in StudioRequests : HandlerAgrees(s) /\ OwnIsHandled(s) /\ LateIsQuarantined(s)
      /\ \A s \in StudioRequests : GotIsOwn(s)
      /\ \A c \in ChatRequests : RunIsAuthorized(c)
  BY MediaAssumption DEF MediaInit, ArtifactAgrees, FileHasRun, HandlerAgrees, OwnIsHandled,
     LateIsQuarantined, GotIsOwn, RunIsAuthorized, Requests, Open, Unused
<1>3. ClaimsHaveHandlers /\ OneIsOpen /\ QuarantineHolds /\ NeverAnotherTenants
  BY MediaAssumption DEF MediaInit, ClaimsHaveHandlers, OneIsOpen, QuarantineHolds,
     NeverAnotherTenants,
     Requests, Open, Unused
<1> QED
  BY <1>1, <1>2, <1>3 DEF MediaInv

\* Every step.
LEMMA MediaStep ==
  ASSUME MediaInv, [MediaNext]_mediaVars
  PROVE  MediaInv'
<1>1. ASSUME NEW s \in StudioRequests,
             \/ reserveStudioGeneration(s) \/ claimNext(s) \/ verifyPendingStudioMedia(s)
             \/ admitStudioGeneration(s) \/ claimAnswered(s) \/ giveUp(s) \/ ingestStudio(s)
             \/ compensateStudioGeneration(s) \/ reverseStudio(s)
      PROVE  MediaInv'
  BY <1>1, StudioReserves, StudioClaims, StudioAdmits, StudioCallsProvider,
     StudioIsAnswered,
     StudioGivesUp, StudioIngests, StudioCompensates, StudioReverses
<1>2. ASSUME NEW c \in ChatRequests,
             \/ reserveChatMedia(c) \/ toolFails(c) \/ compensateChatMedia(c)
             \/ \E y \in Syncs : syncSession(y, c)
      PROVE  MediaInv'
  BY <1>2, ChatReserves, ChatToolFails, ChatCompensates, ChatSights
<1>3. ASSUME NEW y \in Syncs, ingestSighting(y)
      PROVE  MediaInv'
  BY <1>3, ChatIngests
<1>4. ASSUME NEW r \in Requests,
             reap(r) \/ outputLands(r) \/ checkQuarantine(r) \/ routeFile(r)
      PROVE  MediaInv'
  BY <1>4, ReaperActs, OutputLands, WatcherChecks, WatcherRoutes
<1>5. CASE restart
  BY <1>5, MediaRestarts
<1>6. CASE UNCHANGED mediaVars
  BY <1>6 DEF mediaVars, MediaInv, MediaTypeOK, ArtifactAgrees, HandlerAgrees,
     RunIsAuthorized,
     FileHasRun, ClaimsHaveHandlers, OneIsOpen, QuarantineHolds, OwnIsHandled, Undisturbed,
     LateIsQuarantined, GotIsOwn, NeverAnotherTenants
<1> QED
  BY <1>1, <1>2, <1>3, <1>4, <1>5, <1>6 DEF MediaNext

\* A request keeps its debit exactly while it is open or has an artifact, and
\* among Studio requests the artifact is the request's own, for any requests
\* and syncs, whichever calls fail and whenever files land
\* (studio-reservations.ts, chat-media-authorization.ts, media-watcher.ts).
THEOREM ArtifactsArePaidThm == MediaSpec => []ArtifactsArePaid
<1>1. MediaInit => MediaInv
  BY MediaInitOK
<1>2. MediaInv /\ [MediaNext]_mediaVars => MediaInv'
  BY MediaStep
<1>3. MediaInv => ArtifactsArePaid
  BY DEF MediaInv, ArtifactAgrees, Undisturbed, ArtifactsArePaid
<1> QED
  BY <1>1, <1>2, <1>3, PTL DEF MediaSpec

-----------------------------------------------------------------------------
(* Dreams: the parts of the invariant.                                     *)

DreamPhases ==
  {"none", "seed_done", "deep_started", "deep_done", "provider_started", "provider_terminal"}
DreamRows ==
  [status : {"none", "running", "recovery_pending", "error", "done", "skipped"},
   phase : DreamPhases, provider : {"not_started", "started", "terminal", "indeterminate"},
   holder : Dreamers \cup {NoDreamer}, today : BOOLEAN]

\* The places of a dreamer that has a run: in its turn, and elsewhere.
InTurn == {"refused", "ticket", "giveBack", "provider", "stream", "reverse", "row"}
AtRun == InTurn \cup
  {"inspect", "returned", "thrown", "freeze", "seed", "deep", "promote", "promoted",
   "begin", "reserve", "materialize", "recover", "undo", "truth", "settle", "complete",
   "skip", "fail"}
DreamPlaces == AtRun \cup {"idle", "start", "finish"}
DreamLocals ==
  [pc : DreamPlaces, r : Ops, recovery : BOOLEAN,
   seen : {"none", "completed", "partial", "charged", "free", "terminal", "indeterminate"},
   marked : BOOLEAN, report : BOOLEAN, refunded : BOOLEAN,
   outcome : {"none", "recovery_pending", "error"}]

DreamTypes ==
  /\ dream \in [Turns -> DreamRows]
  /\ d \in [Dreamers -> DreamLocals]
  /\ files \in [Turns -> {"none", "diary", "both"}]
  /\ promotions \in [Turns -> Nat] /\ prompts \in [Turns -> Nat]

\* The row says that the provider's turn of r may have begun, and that its
\* promotion has not.
HasBegun(r) == dream[r].phase \in {"provider_started", "provider_terminal"}
Seeding(r) == dream[r].phase \in {"none", "seed_done"}

\* r's money is at rest, and its usage row states what it cost.
Rests(r) ==
  /\ authz[r].state \in Terminal
  /\ usage[r].status \in {"completed", "error"}
  /\ usage[r].manna = Max[r] - Returned(r)

\* Row, money and history of one run.
RunAgrees(r) ==
  /\ dream[r].holder # NoDreamer => dream[r].status = "running"
  /\ dream[r].status = "none" => dream[r].phase = "none"
  /\ Seeding(r) => promotions[r] = 0
  /\ dream[r].phase = "deep_done" \/ HasBegun(r) => promotions[r] = 1
  /\ promotions[r] <= 1 /\ prompts[r] <= 1
  /\ authz[r].state # "none" \/ usage[r].status # "none" => HasBegun(r)
  /\ usage[r].status = "completed" => authz[r].state = "settled"
  /\ run[r] = "none" => prompts[r] = 0
  /\ dream[r].status = "done" => usage[r].status = "completed" /\ files[r] = "both"
  /\ dream[r].provider \in {"terminal", "indeterminate"} /\ authz[r].state # "none" => Rests(r)

\* What a dreamer at x that has the claim of its run may rely on.
ClaimRules(x) ==
  /\ x.pc = "seed" => dream[x.r].phase = "none"
  /\ x.pc = "deep" => dream[x.r].phase = "seed_done"
  /\ x.pc \in {"promote", "promoted", "freeze"} => dream[x.r].phase = "deep_started"
  /\ x.pc = "begin" => dream[x.r].phase \in {"deep_done", "provider_started"}
  /\ x.pc = "reserve" => HasBegun(x.r) /\ dream[x.r].provider = "started"
  /\ x.pc = "recover" /\ x.seen = "free" => authz[x.r].state = "none"

\* What any dreamer at x may rely on, also one that has lost its claim.
DreamerRules(x) ==
  /\ x.r \in Turns
  /\ x.pc \in InTurn => HasBegun(x.r)
  /\ x.pc = "promote" => promotions[x.r] = 0 /\ ~Seeding(x.r)
  /\ x.pc = "promoted" => promotions[x.r] = 1
  /\ x.pc = "provider" => run[x.r] # "none" /\ prompts[x.r] = 0
  /\ x.pc = "recover" =>
       /\ usage[x.r].status # "none"
       /\ x.seen \in {"completed", "partial", "charged", "free"}
       /\ x.seen = "completed" => usage[x.r].status = "completed"
       /\ x.seen = "partial" => authz[x.r].state = "settled" /\ usage[x.r].status = "error"
       /\ x.seen = "charged" => authz[x.r].state # "none"
  /\ x.pc \in {"undo", "truth", "settle"} => authz[x.r].state # "none"
  /\ x.pc = "settle" =>
       authz[x.r].state \in Refunded /\ usage[x.r] = [status |-> "error", manna |-> 0]
  /\ x.pc = "complete" => usage[x.r].status = "completed" /\ files[x.r] = "both"
  /\ x.pc = "fail" => x.outcome # "none"

DreamerOK(p) ==
  d[p].pc \in AtRun =>
    DreamerRules(d[p]) /\ (dream[d[p].r].holder = p => ClaimRules(d[p]))

\* What happens to a run once is in the hands of one dreamer.
OnceEach ==
  \A p, q \in Dreamers :
    p # q /\ d[p].pc = d[q].pc /\ d[p].pc \in {"promote", "provider"} => d[p].r # d[q].r

DreamInv ==
  /\ IInv /\ DreamTypes
  /\ \A r \in Turns : RunAgrees(r)
  /\ \A p \in Dreamers : DreamerOK(p)
  /\ OnceEach

-----------------------------------------------------------------------------
(* Dreams: the kernel's transactions.                                      *)

\* What a transaction of the kernel leaves of every run.
KernelKept ==
  /\ IInv'
  /\ \A r \in Turns :
       /\ authz[r].state \in Terminal => authz'[r] = authz[r]
       /\ authz[r].state # "none" => authz'[r].state # "none"
       /\ usage[r].status = "completed" => usage'[r] = usage[r]
       /\ usage[r].status = "error" =>
            \/ usage'[r] = usage[r]
            \/ authz[r].state \in Refunded /\ usage'[r] = [status |-> "error", manna |-> 0]
       /\ usage[r].status # "none" => usage'[r].status # "none"
       /\ usage'[r].status = "completed" =>
            usage[r].status = "completed" \/ authz'[r].state = "settled"
       /\ run[r] # "none" => run'[r] # "none"

\* ... and of every run but o.
Alone(o) ==
  \A r \in Turns \ {o} : authz'[r] = authz[r] /\ usage'[r] = usage[r] /\ run'[r] = run[r]

\* The transactions of a dreamer and of the reaper on a turn that is reserved or
\* is recorded, and the one that reserves it.
TurnMoves(o) ==
  \/ claimTurnProviderStart(o) \/ markTurnUsableOutput(o)
  \/ \E c \in Amounts \cup {0} : settleTerminal(o, c)
  \/ settlePartialOutputAuthorization(o)
  \/ \E n \in {0, Max[o]} : recordUsageEvent(o, n)
  \/ \E s \in Refunded : reverseAtOnce(o, s)
  \/ UNCHANGED vars

LEMMA KernelRows ==
  ASSUME IInv
  PROVE  /\ authz \in [Turns -> Authorization] /\ usage \in [Turns -> Usage]
         /\ run \in [Turns -> {"none", "started", "output"}]
         /\ \A r \in Turns : authz[r] \in Authorization
         /\ \A r \in Turns : Max[r] \in Nat
BY Unfolded DEF IInv, TypeOK

LEMMA TurnMovesKeep ==
  ASSUME IInv, NEW o \in Turns, TurnMoves(o)
  PROVE  /\ KernelKept /\ Alone(o)
         /\ authz[o].state = "none" => authz'[o].state = "none"
<1>1. /\ authz \in [Turns -> Authorization] /\ usage \in [Turns -> Usage]
      /\ run \in [Turns -> {"none", "started", "output"}]
  BY KernelRows
<1>2. IInv' /\ KeepsOutcomes
  <2>1. CASE \E s \in Refunded : reverseAtOnce(o, s)
    BY <2>1, ReverseAtOnceStep
  <2>2. CASE ~\E s \in Refunded : reverseAtOnce(o, s)
    <3>1. [Next]_vars
      BY <2>2 DEF TurnMoves, Next
    <3> QED
      BY <3>1, NextIInv
  <2> QED
    BY <2>1, <2>2
<1> DEFINE TurnMoved ==
                    /\ Alone(o) /\ (authz[o].state # "none" <=> authz'[o].state # "none")
                    /\ usage[o].status # "none" => usage'[o].status # "none"
                    /\ usage'[o].status = "completed" =>
                         usage[o].status = "completed" \/ authz'[o].state = "settled"
                    /\ run[o] # "none" => run'[o] # "none"
<1>3. TurnMoved
  <2>1. CASE claimTurnProviderStart(o)
    BY <1>1, <2>1 DEF claimTurnProviderStart, Alone
  <2>2. CASE markTurnUsableOutput(o)
    BY <1>1, <2>2 DEF markTurnUsableOutput, Alone
  <2>3. ASSUME NEW c, NEW W, NEW st, Settled(o, c), st # "none",
               UsageTruth(o, W, [status |-> st, manna |-> c]), UNCHANGED run
        PROVE  TurnMoved
    <3>1. /\ authz[o].state = "reserved" /\ authz'[o].state = "settled"
          /\ \A r \in Turns \ {o} : authz'[r] = authz[r]
      BY <1>1, <2>3 DEF Settled, IsReserved, Authorization
    <3>2. usage'[o].status = st /\ \A r \in Turns \ {o} : usage'[r] = usage[r]
      BY <1>1, <2>3 DEF UsageTruth
    <3> QED
      BY <2>3, <3>1, <3>2 DEF Alone
  <2>4. CASE \E c \in Amounts \cup {0} : settleTerminal(o, c)
    BY <2>3, <2>4 DEF settleTerminal
  <2>5. CASE settlePartialOutputAuthorization(o)
    BY <2>3, <2>5 DEF settlePartialOutputAuthorization
  <2>6. ASSUME NEW n, recordUsageEvent(o, n) PROVE TurnMoved
    BY <1>1, <2>6 DEF recordUsageEvent, Alone
  <2>7. ASSUME NEW s \in Refunded, reverseAtOnce(o, s) PROVE TurnMoved
    <3>1. /\ authz[o].state = "reserved" /\ authz'[o].state = s
          /\ \A r \in Turns \ {o} : authz'[r] = authz[r]
      BY <1>1, <2>7 DEF reverseAtOnce, IsReserved, Authorization
    <3> QED
      BY <2>7, <3>1 DEF reverseAtOnce, Alone, Refunded
  <2>8. CASE UNCHANGED vars
    BY <2>8 DEF vars, Alone
  <2> QED
    BY <2>1, <2>2, <2>4, <2>5, <2>6, <2>7, <2>8 DEF TurnMoves
<1>4. \A r \in Turns :
        /\ authz[r].state # "none" => authz'[r].state # "none"
        /\ usage[r].status # "none" => usage'[r].status # "none"
        /\ usage'[r].status = "completed" =>
             usage[r].status = "completed" \/ authz'[r].state = "settled"
        /\ run[r] # "none" => run'[r] # "none"
  BY <1>3 DEF Alone
<1> QED
  BY <1>2, <1>3, <1>4 DEF KernelKept, KeepsOutcomes

LEMMA ReserveKeeps ==
  ASSUME IInv, NEW o \in Turns, reserveAuthorization(o)
  PROVE  KernelKept /\ Alone(o) /\ authz[o].state = "none"
<1>1. authz \in [Turns -> Authorization]
  BY KernelRows
<1>2. IInv' /\ KeepsOutcomes
  BY NextIInv DEF Next
<1>3. /\ authz[o].state = "none" /\ authz'[o].state = "reserved" /\ UNCHANGED <<usage, run>>
      /\ \A r \in Turns \ {o} : authz'[r] = authz[r]
  BY <1>1 DEF reserveAuthorization
<1> QED
  BY <1>2, <1>3 DEF KernelKept, KeepsOutcomes, Alone

\* recordMemoryDreamRecoveryUsage writes the row of a reversed turn again.
LEMMA RecoveryRowKeeps ==
  ASSUME IInv, NEW o \in Turns, authz[o].state \in Refunded, usage[o].status # "completed",
         usage' = [usage EXCEPT ![o] = [status |-> "error", manna |-> 0]],
         UNCHANGED <<ledger, authz, run, reversing, raced>>
  PROVE  KernelKept /\ Alone(o) /\ authz[o].state # "none"
<1>1. /\ usage \in [Turns -> Usage] /\ authz[o].state # "settled" /\ authz[o].state # "none"
  BY KernelRows DEF Refunded
<1>2. /\ usage'[o] = [status |-> "error", manna |-> 0]
      /\ \A r \in Turns \ {o} : usage'[r] = usage[r]
  BY <1>1
<1>3. usage' \in [Turns -> Usage]
  BY <1>1 DEF Usage
<1>4. TypeOK' /\ SettledUsageExact'
  BY <1>1, <1>2, <1>3 DEF IInv, TypeOK, SettledUsageExact
<1>5. \A r \in Turns : MoneyOf(r)' /\ MarkKept(r)'
  BY Unfolded DEF IInv, MoneyOf, Returned, MarkKept, Waiting
<1>6. IInv'
  BY <1>4, <1>5, Conclude DEF IInv
<1> QED
  BY <1>1, <1>2, <1>6 DEF KernelKept, Alone

-----------------------------------------------------------------------------
(* Dreams: frames.                                                         *)

LEMMA RestsKept ==
  ASSUME KernelKept, NEW r \in Turns, Rests(r)
  PROVE  Rests(r)'
<1>1. authz'[r] = authz[r] /\ Returned(r)' = Returned(r)
  BY DEF KernelKept, Rests, Returned
<1>2. CASE usage'[r] = usage[r]
  BY <1>1, <1>2 DEF Rests
<1>3. CASE authz[r].state \in Refunded /\ usage'[r] = [status |-> "error", manna |-> 0]
  <2>1. Returned(r) = Max[r] /\ Max[r] \in Nat
    BY <1>3, TurnsAssumption, AmountsAssumption DEF Returned, Refunded
  <2> QED
    BY <1>1, <1>3, <2>1 DEF Rests
<1> QED
  BY <1>2, <1>3 DEF KernelKept, Rests

\* A transaction of the kernel on the turn of o, whose row says it has begun.
LEMMA RunsKept ==
  ASSUME DreamInv, KernelKept, UNCHANGED <<dream, files, promotions, prompts>>,
         NEW o \in Turns, HasBegun(o), Alone(o),
         authz[o].state = "none" /\ authz'[o].state # "none" => dream[o].provider = "started"
  PROVE  \A r \in Turns : RunAgrees(r)'
<1> SUFFICES ASSUME NEW r \in Turns PROVE RunAgrees(r)'
  OBVIOUS
<1>1. RunAgrees(r)
  BY DEF DreamInv
<1>2. authz'[r].state # "none" \/ usage'[r].status # "none" => HasBegun(r)
  <2>1. CASE r = o
    BY <2>1
  <2>2. CASE r # o
    BY <1>1, <2>2 DEF Alone, RunAgrees
  <2> QED
    BY <2>1, <2>2
<1>3. usage'[r].status = "completed" => authz'[r].state = "settled"
  <2>1. usage[r].status = "completed" => authz'[r].state = "settled"
    BY <1>1 DEF RunAgrees, KernelKept, Terminal
  <2> QED
    BY <2>1 DEF KernelKept
<1>4. dream[r].provider \in {"terminal", "indeterminate"} /\ authz'[r].state # "none"
        => Rests(r)'
  <2> SUFFICES ASSUME dream[r].provider \in {"terminal", "indeterminate"},
                      authz'[r].state # "none"
               PROVE  Rests(r)'
    OBVIOUS
  <2>1. authz[r].state # "none"
    BY DEF Alone
  <2> QED
    BY <1>1, <2>1, RestsKept DEF RunAgrees
<1>5. dream[r].status = "done" => usage'[r].status = "completed"
  BY <1>1 DEF RunAgrees, KernelKept
<1>6. run'[r] = "none" => prompts[r] = 0
  BY <1>1 DEF RunAgrees, KernelKept
<1> QED
  BY <1>1, <1>2, <1>3, <1>4, <1>5, <1>6 DEF RunAgrees, HasBegun, Seeding

\* What a step of the dreamers in S, or of nobody, leaves of every run and of
\* the others' claims.
RowsGrow(S) ==
  /\ \A r \in Turns :
       /\ HasBegun(r) => HasBegun(r)'
       /\ ~Seeding(r) => ~Seeding(r)'
       /\ files[r] = "both" => files'[r] = "both"
       /\ promotions'[r] = promotions[r] \/ \E p \in S : Stands(p, "promote") /\ Run(p) = r
       /\ prompts'[r] = prompts[r] \/ \E p \in S : Stands(p, "provider") /\ Run(p) = r
  /\ \A r \in Turns, q \in Dreamers \ S :
       dream'[r].holder = q =>
         /\ dream[r].holder = q
         /\ dream'[r].phase = dream[r].phase /\ dream'[r].provider = dream[r].provider
         /\ authz[r].state = "none" => authz'[r].state = "none"

LEMMA OtherDreamer ==
  ASSUME DreamInv, KernelKept, NEW S, S \subseteq Dreamers, RowsGrow(S),
         NEW q \in Dreamers \ S, d'[q] = d[q]
  PROVE  DreamerOK(q)'
<1> SUFFICES ASSUME d[q].pc \in AtRun
             PROVE  /\ DreamerRules(d[q])'
                    /\ dream'[d[q].r].holder = q => ClaimRules(d[q])'
  BY DEF DreamerOK
<1>1. DreamerRules(d[q]) /\ (dream[d[q].r].holder = q => ClaimRules(d[q]))
  BY DEF DreamInv, DreamerOK
<1>2. PICK x : x = d[q]
  OBVIOUS
<1>3. x.r \in Turns
  BY <1>1, <1>2 DEF DreamerRules
<1>4. x.pc = "promote" => promotions'[x.r] = 0
  <2>1. \A p \in S : Stands(p, "promote") /\ x.pc = "promote" => Run(p) # x.r
    BY <1>2 DEF DreamInv, OnceEach, Stands, Run
  <2>2. x.pc = "promote" => promotions[x.r] = 0
    BY <1>1, <1>2 DEF DreamerRules
  <2> QED
    BY <1>3, <2>1, <2>2 DEF RowsGrow
<1>5. x.pc = "provider" => prompts'[x.r] = 0
  <2>1. \A p \in S : Stands(p, "provider") /\ x.pc = "provider" => Run(p) # x.r
    BY <1>2 DEF DreamInv, OnceEach, Stands, Run
  <2>2. x.pc = "provider" => prompts[x.r] = 0
    BY <1>1, <1>2 DEF DreamerRules
  <2> QED
    BY <1>3, <2>1, <2>2 DEF RowsGrow
<1>6. x.pc = "promoted" => promotions'[x.r] = 1
  <2>1. \A p \in S : Stands(p, "promote") /\ Run(p) = x.r => promotions[x.r] = 0
    <3> SUFFICES ASSUME NEW p \in S, Stands(p, "promote"), Run(p) = x.r
                 PROVE  promotions[x.r] = 0
      OBVIOUS
    <3>1. DreamerOK(p) /\ d[p].pc \in AtRun /\ d[p].r = x.r
      BY DEF DreamInv, AtRun, Stands, Run
    <3> QED
      BY <3>1 DEF DreamerOK, DreamerRules, Stands
  <2>2. x.pc = "promoted" => promotions[x.r] = 1
    BY <1>1, <1>2 DEF DreamerRules
  <2> QED
    BY <1>3, <2>1, <2>2 DEF RowsGrow
<1>7. /\ x.pc \in InTurn => HasBegun(x.r)'
      /\ x.pc = "promote" => ~Seeding(x.r)'
      /\ x.pc = "complete" => files'[x.r] = "both"
  BY <1>1, <1>2, <1>3 DEF DreamerRules, RowsGrow
<1>8. /\ x.pc = "provider" => run'[x.r] # "none"
      /\ x.pc = "recover" =>
           /\ usage'[x.r].status # "none"
           /\ x.seen \in {"completed", "partial", "charged", "free"}
           /\ x.seen = "completed" => usage'[x.r].status = "completed"
           /\ x.seen = "charged" => authz'[x.r].state # "none"
      /\ x.pc \in {"undo", "truth", "settle"} => authz'[x.r].state # "none"
      /\ x.pc = "complete" => usage'[x.r].status = "completed"
      /\ x.pc = "fail" => x.outcome # "none"
  BY <1>1, <1>2, <1>3 DEF DreamerRules, KernelKept
<1>9. /\ x.pc = "recover" /\ x.seen = "partial" =>
           authz'[x.r].state = "settled" /\ usage'[x.r].status = "error"
      /\ x.pc = "settle" => /\ authz'[x.r].state \in Refunded
                            /\ usage'[x.r] = [status |-> "error", manna |-> 0]
  BY <1>1, <1>2, <1>3 DEF DreamerRules, KernelKept, Terminal, Refunded
<1>10. DreamerRules(x)'
  BY <1>3, <1>4, <1>5, <1>6, <1>7, <1>8, <1>9 DEF DreamerRules
<1>11. dream'[x.r].holder = q => ClaimRules(x)'
  <2> SUFFICES ASSUME dream'[x.r].holder = q PROVE ClaimRules(x)'
    OBVIOUS
  <2>1. /\ dream[x.r].holder = q
        /\ dream'[x.r].phase = dream[x.r].phase /\ dream'[x.r].provider = dream[x.r].provider
        /\ authz[x.r].state = "none" => authz'[x.r].state = "none"
    BY <1>3 DEF RowsGrow
  <2>2. ClaimRules(x)
    BY <1>1, <1>2, <2>1
  <2> QED
    BY <2>1, <2>2 DEF ClaimRules, HasBegun
<1> QED
  BY <1>2, <1>10, <1>11

LEMMA DreamFrame ==
  ASSUME DreamInv, KernelKept, DreamTypes', \A r \in Turns : RunAgrees(r)',
         NEW S, S \subseteq Dreamers, RowsGrow(S), \A q \in Dreamers \ S : d'[q] = d[q],
         \A p \in S : DreamerOK(p)',
         \A p \in S, q \in Dreamers :
           p # q /\ d'[p].pc = d'[q].pc /\ d'[p].pc \in {"promote", "provider"}
             => d'[p].r # d'[q].r
  PROVE  DreamInv'
<1>1. \A q \in Dreamers : DreamerOK(q)'
  <2> SUFFICES ASSUME NEW q \in Dreamers, q \notin S PROVE DreamerOK(q)'
    OBVIOUS
  <2> QED
    BY OtherDreamer
<1>2. OnceEach'
  <2> SUFFICES ASSUME NEW p \in Dreamers, NEW q \in Dreamers, p # q, d'[p].pc = d'[q].pc,
                      d'[p].pc \in {"promote", "provider"}
               PROVE  d'[p].r # d'[q].r
    BY DEF OnceEach
  <2>1. CASE p \in S
    BY <2>1
  <2>2. CASE q \in S
    BY <2>2
  <2>3. CASE p \notin S /\ q \notin S
    BY <2>3 DEF DreamInv, OnceEach
  <2> QED
    BY <2>1, <2>2, <2>3
<1> QED
  BY <1>1, <1>2 DEF DreamInv, KernelKept

-----------------------------------------------------------------------------
(* Dreams: the steps of one dreamer.                                       *)

\* The places at which a dreamer relies on nothing but that it has a run.
Plain == {"inspect", "returned", "thrown", "materialize", "skip", "fail"}

LEMMA PlainRules ==
  ASSUME NEW x, x.pc \in Plain, x.r \in Turns, x.pc = "fail" => x.outcome # "none"
  PROVE  DreamerRules(x) /\ ClaimRules(x) /\ DreamerRules(x)' /\ ClaimRules(x)'
BY DEF DreamerRules, ClaimRules, Plain, InTurn

LEMMA ToLocal ==
  ASSUME NEW x \in DreamLocals, NEW pc \in DreamPlaces
  PROVE  /\ [x EXCEPT !.pc = pc] \in DreamLocals
         /\ [x EXCEPT !.pc = pc].pc = pc /\ [x EXCEPT !.pc = pc].r = x.r
         /\ [x EXCEPT !.pc = pc].seen = x.seen
         /\ [x EXCEPT !.pc = pc].outcome = x.outcome
BY DEF DreamLocals

LEMMA AsleepLocal ==
  Asleep \in DreamLocals /\ Asleep.pc = "idle" /\ "idle" \notin AtRun
BY DreamsAssumption DEF Asleep, DreamLocals, DreamPlaces, AtRun, InTurn

LEMMA OfDreamer ==
  ASSUME DreamInv, NEW p \in Dreamers
  PROVE  /\ d[p] \in DreamLocals /\ d[p].pc \in DreamPlaces /\ DreamerOK(p)
         /\ d[p].pc \in AtRun =>
              /\ Run(p) \in Turns /\ RunAgrees(Run(p)) /\ DreamRow(p) \in DreamRows
              /\ DreamerRules(d[p]) /\ (HasClaim(p) => ClaimRules(d[p]))
         /\ NoDreamer \notin Dreamers
<1>1. d[p] \in DreamLocals /\ DreamerOK(p)
  BY DEF DreamInv, DreamTypes
<1>2. d[p].pc \in DreamPlaces
  BY <1>1 DEF DreamLocals
<1>3. d[p].pc \in AtRun => DreamerRules(d[p]) /\ (HasClaim(p) => ClaimRules(d[p]))
  BY <1>1 DEF DreamerOK, HasClaim, DreamRow, Run
<1>4. d[p].pc \in AtRun => Run(p) \in Turns
  BY <1>3 DEF DreamerRules, Run
<1> QED
  BY <1>1, <1>2, <1>3, <1>4, DreamsAssumption DEF DreamInv, DreamTypes, DreamRow

LEMMA GoesToPlace ==
  ASSUME DreamInv, NEW p \in Dreamers, NEW pc \in DreamPlaces, To(p, pc)
  PROVE  \E l \in DreamLocals :
           /\ Continue(p, l)
           /\ l.pc = pc /\ l.r = Run(p) /\ l.seen = d[p].seen
<1> DEFINE l == [d[p] EXCEPT !.pc = pc]
<1>1. l \in DreamLocals /\ l.pc = pc /\ l.r = d[p].r /\ l.seen = d[p].seen
  BY OfDreamer, ToLocal
<1>2. Continue(p, l)
  BY DEF To
<1> HIDE DEF l
<1> QED
  BY <1>1, <1>2 DEF Run

\* p goes on at l.
LEMMA MovedTo ==
  ASSUME DreamInv, NEW p \in Dreamers, NEW l \in DreamLocals, Continue(p, l)
  PROVE  /\ d' \in [Dreamers -> DreamLocals] /\ d'[p] = l
         /\ \A q \in Dreamers \ {p} : d'[q] = d[q]
         /\ (l.pc \in AtRun =>
               DreamerRules(l)' /\ (dream'[l.r].holder = p => ClaimRules(l)'))
              => DreamerOK(p)'
<1>1. d \in [Dreamers -> DreamLocals]
  BY DEF DreamInv, DreamTypes
<1>2. d' \in [Dreamers -> DreamLocals] /\ d'[p] = l /\ \A q \in Dreamers \ {p} : d'[q] = d[q]
  BY <1>1 DEF Continue
<1>3. ASSUME l.pc \in AtRun =>
               DreamerRules(l)' /\ (dream'[l.r].holder = p => ClaimRules(l)')
      PROVE  DreamerOK(p)'
  BY <1>2, <1>3 DEF DreamerOK, DreamerRules, ClaimRules, HasBegun, Seeding
<1> QED
  BY <1>2, <1>3

\* A transaction of the kernel on the turn of p's run.
LEMMA KernelStep ==
  ASSUME DreamInv, NEW p \in Dreamers, NEW l \in DreamLocals, Continue(p, l),
         UNCHANGED <<dream, files, promotions, prompts>>,
         KernelKept, Run(p) \in Turns, HasBegun(Run(p)), Alone(Run(p)),
         authz[Run(p)].state = "none" /\ authz'[Run(p)].state # "none" =>
           HasClaim(p) /\ DreamRow(p).provider = "started",
         l.pc # "promote", l.pc = "provider" => l.r = Run(p) /\ run[l.r] = "none",
         l.pc \in AtRun => DreamerRules(l)' /\ (dream[l.r].holder = p => ClaimRules(l)')
  PROVE  DreamInv'
<1>1. \A r \in Turns : RunAgrees(r)'
  BY RunsKept DEF DreamRow
<1>2. /\ d' \in [Dreamers -> DreamLocals] /\ d'[p] = l /\ DreamerOK(p)'
      /\ \A q \in Dreamers \ {p} : d'[q] = d[q]
  BY MovedTo
<1>3. DreamTypes'
  BY <1>2 DEF DreamInv, DreamTypes
<1>4. RowsGrow({p})
  <2>1. \A r \in Turns, q \in Dreamers \ {p} :
          dream[r].holder = q /\ authz[r].state = "none" => authz'[r].state = "none"
    BY DEF HasClaim, DreamRow, Alone
  <2> QED
    BY <2>1 DEF RowsGrow, HasBegun, Seeding
<1>5. \A q \in Dreamers \ {p} :
        d'[p].pc = d'[q].pc /\ d'[p].pc \in {"promote", "provider"} => d'[p].r # d'[q].r
  <2> SUFFICES ASSUME NEW q \in Dreamers \ {p}, l.pc = "provider", d[q].pc = "provider",
                      d[q].r = l.r
               PROVE  FALSE
    BY <1>2
  <2>1. run[d[q].r] # "none"
    BY OfDreamer DEF DreamerRules, AtRun, InTurn
  <2> QED
    BY <2>1
<1> QED
  BY <1>1, <1>2, <1>3, <1>4, <1>5, DreamFrame

LEMMA NothingMoves ==
  ASSUME DreamInv, UNCHANGED vars
  PROVE  KernelKept /\ \A r \in Turns : Alone(r) /\ authz'[r] = authz[r]
<1>1. IInv'
  BY NextIInv DEF DreamInv
<1> QED
  BY <1>1 DEF KernelKept, Alone, vars

\* A step that leaves tables and history alone.
LEMMA QuietStep ==
  ASSUME DreamInv, NEW p \in Dreamers, NEW l \in DreamLocals, Continue(p, l),
         UNCHANGED <<vars, dream, files, promotions, prompts>>,
         l.pc \notin {"promote", "provider"},
         l.pc \in AtRun => DreamerRules(l) /\ (dream[l.r].holder = p => ClaimRules(l))
  PROVE  DreamInv'
<1>1. KernelKept /\ UNCHANGED vars /\ UNCHANGED <<dream, files, promotions, prompts>>
  BY NothingMoves
<1>2. \A r \in Turns : RunAgrees(r)'
  BY <1>1 DEF DreamInv, RunAgrees, HasBegun, Seeding, Rests, Returned, vars
<1>3. (DreamerRules(l) => DreamerRules(l)') /\ (ClaimRules(l) => ClaimRules(l)')
  BY <1>1 DEF DreamerRules, ClaimRules, HasBegun, Seeding, vars
<1>4. /\ d' \in [Dreamers -> DreamLocals] /\ d'[p] = l /\ DreamerOK(p)'
      /\ \A q \in Dreamers \ {p} : d'[q] = d[q]
  BY <1>3, MovedTo
<1>5. DreamTypes'
  BY <1>4 DEF DreamInv, DreamTypes
<1>6. RowsGrow({p})
  BY <1>1 DEF RowsGrow, HasBegun, Seeding, vars
<1> QED
  BY <1>1, <1>2, <1>4, <1>5, <1>6, DreamFrame

\* ... to a place without rules.
LEMMA QuietPlain ==
  ASSUME DreamInv, NEW p \in Dreamers, NEW l \in DreamLocals, Continue(p, l),
         UNCHANGED <<vars, dream, files, promotions, prompts>>,
         \/ l.pc \in Plain /\ l.r \in Turns /\ (l.pc = "fail" => l.outcome # "none")
         \/ l.pc \in {"idle", "start", "finish"}
  PROVE  DreamInv'
<1>1. l.pc \notin {"promote", "provider"}
  BY DEF Plain
<1>2. l.pc \in AtRun => DreamerRules(l) /\ ClaimRules(l)
  BY PlainRules DEF AtRun, InTurn
<1> QED
  BY <1>1, <1>2, QuietStep

\* A transaction on the turn of a run whose phase says it has begun, after which
\* p is still in its turn or has left it.
LEMMA TurnCall ==
  ASSUME DreamInv, NEW p \in Dreamers, NEW l \in DreamLocals, Continue(p, l),
         UNCHANGED <<dream, files, promotions, prompts>>, TurnMoves(Run(p)),
         d[p].pc \in AtRun, HasBegun(Run(p)), l.r = Run(p),
         l.pc \in InTurn \ {"provider"} \/ l.pc \in Plain \ {"fail"}
  PROVE  DreamInv'
<1>1. Run(p) \in Turns /\ IInv
  BY OfDreamer DEF DreamInv
<1>2. /\ KernelKept /\ Alone(Run(p))
      /\ authz[Run(p)].state = "none" => authz'[Run(p)].state = "none"
  BY <1>1, TurnMovesKeep
<1>3. l.pc \in InTurn \ {"provider"} => DreamerRules(l)' /\ ClaimRules(l)'
  BY <1>1 DEF DreamerRules, ClaimRules, InTurn, HasBegun
<1>4. l.pc \in Plain \ {"fail"} => DreamerRules(l)' /\ ClaimRules(l)'
  BY <1>1, PlainRules
<1>5. l.pc \notin {"promote", "provider"}
  BY DEF Plain, InTurn
<1> QED
  BY <1>1, <1>2, <1>3, <1>4, <1>5, KernelStep

\* A row of o that p, which has or takes the claim of o, may write.
RowOK(o, p, rw) ==
  /\ rw \in DreamRows
  /\ rw.holder \in {p, NoDreamer} /\ (rw.holder # NoDreamer => rw.status = "running")
  /\ rw.status # "none"
  /\ rw.status = "done" => usage[o].status = "completed" /\ files[o] = "both"
  /\ HasBegun(o) => rw.phase \in {"provider_started", "provider_terminal"}
  /\ rw.phase \in {"none", "seed_done"} => Seeding(o)
  /\ rw.phase \in {"deep_done", "provider_started", "provider_terminal"} =>
       promotions[o] = 1
  /\ rw.provider \in {"terminal", "indeterminate"} /\ authz[o].state # "none" =>
       Rests(o)

LEMMA RowStep ==
  ASSUME DreamInv, NEW p \in Dreamers, NEW l \in DreamLocals, Continue(p, l),
         NEW o \in Turns, NEW rw, RowOK(o, p, rw),
         dream' = [dream EXCEPT ![o] = rw],
         UNCHANGED <<vars, files, promotions, prompts>>,
         l.pc # "provider", l.pc = "promote" => Seeding(o) /\ l.r = o,
         l.pc \in AtRun => DreamerRules(l)' /\ (dream'[l.r].holder = p => ClaimRules(l)')
  PROVE  DreamInv'
<1>1. KernelKept /\ UNCHANGED vars /\ UNCHANGED <<files, promotions, prompts>>
  BY NothingMoves
<1>2. /\ dream'[o] = rw /\ \A r \in Turns \ {o} : dream'[r] = dream[r]
      /\ dream' \in [Turns -> DreamRows]
  BY DEF DreamInv, DreamTypes, RowOK
<1>3. \A r \in Turns : RunAgrees(r)'
  <2> SUFFICES ASSUME NEW r \in Turns PROVE RunAgrees(r)'
    OBVIOUS
  <2>1. RunAgrees(r)
    BY DEF DreamInv
  <2>2. CASE r # o
    BY <1>1, <1>2, <2>1, <2>2 DEF RunAgrees, HasBegun, Seeding, Rests, Returned, vars
  <2>3. CASE r = o
    <3>1. Rests(r) => Rests(r)'
      BY <1>1 DEF Rests, Returned, vars
    <3> QED
      BY <1>1, <1>2, <2>1, <2>3, <3>1 DEF RunAgrees, RowOK, HasBegun, Seeding, vars
  <2> QED
    BY <2>2, <2>3
<1>4. /\ d' \in [Dreamers -> DreamLocals] /\ d'[p] = l /\ DreamerOK(p)'
      /\ \A q \in Dreamers \ {p} : d'[q] = d[q]
  BY MovedTo
<1>5. DreamTypes'
  BY <1>1, <1>2, <1>4 DEF DreamInv, DreamTypes
<1>6. RowsGrow({p})
  <2>1. \A r \in Turns : (HasBegun(r) => HasBegun(r)') /\ (~Seeding(r) => ~Seeding(r)')
    BY <1>2 DEF RowOK, HasBegun, Seeding
  <2>2. \A r \in Turns, q \in Dreamers \ {p} :
          dream'[r].holder = q => dream'[r] = dream[r]
    BY <1>2, DreamsAssumption DEF RowOK
  <2> QED
    BY <1>1, <2>1, <2>2 DEF RowsGrow, vars
<1>7. \A q \in Dreamers \ {p} :
        d'[p].pc = d'[q].pc /\ d'[p].pc \in {"promote", "provider"} => d'[p].r # d'[q].r
  <2> SUFFICES ASSUME NEW q \in Dreamers \ {p}, l.pc = "promote", d[q].pc = "promote",
                      d[q].r = l.r
               PROVE  FALSE
    BY <1>4
  <2>1. ~Seeding(d[q].r)
    BY OfDreamer DEF DreamerRules, AtRun
  <2> QED
    BY <2>1
<1> QED
  BY <1>1, <1>3, <1>4, <1>5, <1>6, <1>7, DreamFrame

\* p goes on at a place without rules.
Leaves(p) ==
  \E l \in DreamLocals :
    /\ Continue(p, l)
    /\ \/ l.pc \in Plain /\ l.r \in Turns /\ (l.pc = "fail" => l.outcome # "none")
       \/ l.pc \in {"idle", "start", "finish"}

LEMMA WaysToLeave ==
  ASSUME DreamInv, NEW p \in Dreamers, d[p].pc \in AtRun,
         \/ Throws(p) \/ Pending(p) \/ Resolved(p) \/ Sleep(p)
         \/ \E pc \in (Plain \ {"fail"}) \cup {"start", "finish"} : To(p, pc)
  PROVE  Leaves(p)
<1>1. d[p] \in DreamLocals /\ d[p].r \in Turns
  BY OfDreamer DEF Run
<1>2. ASSUME NEW oc \in {"recovery_pending", "error"}, Ends(p, oc)
      PROVE  Leaves(p)
  <2>1. PICK x : x = d[p]
    OBVIOUS
  <2>2. PICK l : l = [x EXCEPT !.pc = "fail", !.outcome = oc]
    OBVIOUS
  <2>3. l \in DreamLocals /\ l.pc = "fail" /\ l.r = x.r /\ l.outcome # "none"
    <3>1. x \in DreamLocals
      BY <1>1, <2>1
    <3> QED
      BY ONLY <2>2, <3>1 DEF DreamLocals, DreamPlaces, AtRun
  <2>4. Continue(p, l)
    BY <1>2, <2>1, <2>2 DEF Ends
  <2> QED
    BY <1>1, <2>1, <2>3, <2>4 DEF Leaves, Plain
<1>3. ASSUME NEW pc \in (Plain \ {"fail"}) \cup {"start", "finish"}, To(p, pc)
      PROVE  Leaves(p)
  <2>1. pc \in DreamPlaces
    BY DEF Plain, DreamPlaces, AtRun
  <2>2. PICK l \in DreamLocals : Continue(p, l) /\ l.pc = pc /\ l.r = Run(p)
    BY <1>3, <2>1, GoesToPlace
  <2> QED
    BY <1>1, <2>2 DEF Leaves, Run
<1>4. CASE Sleep(p)
  BY <1>4, AsleepLocal DEF Sleep, Leaves
<1> QED
  BY <1>2, <1>3, <1>4 DEF Throws, Pending, Resolved

LEMMA QuietLeaves ==
  ASSUME DreamInv, NEW p \in Dreamers, Leaves(p),
         UNCHANGED <<vars, dream, files, promotions, prompts>>
  PROVE  DreamInv'
BY QuietPlain DEF Leaves

LEMMA RowLeaves ==
  ASSUME DreamInv, NEW p \in Dreamers, Leaves(p), NEW o \in Turns,
         NEW rw, RowOK(o, p, rw), UNCHANGED <<vars, files, promotions, prompts>>,
         dream' = [dream EXCEPT ![o] = rw] \/ UNCHANGED dream
  PROVE  DreamInv'
<1>1. CASE UNCHANGED dream
  BY <1>1, QuietLeaves
<1>2. CASE dream' = [dream EXCEPT ![o] = rw]
  <2>1. PICK l \in DreamLocals :
          /\ Continue(p, l)
          /\ \/ l.pc \in Plain /\ l.r \in Turns /\ (l.pc = "fail" => l.outcome # "none")
             \/ l.pc \in {"idle", "start", "finish"}
    BY DEF Leaves
  <2>2. l.pc \notin {"promote", "provider"}
    BY <2>1 DEF Plain
  <2>3. l.pc \in AtRun => DreamerRules(l)' /\ ClaimRules(l)'
    BY <2>1, PlainRules DEF AtRun, InTurn
  <2> QED
    BY <1>2, <2>1, <2>2, <2>3, RowStep
<1> QED
  BY <1>1, <1>2

LEMMA ClaimRow ==
  ASSUME DreamInv, NEW p \in Dreamers, d[p].pc \in AtRun, HasClaim(p)
  PROVE  /\ Run(p) \in Turns /\ DreamRow(p) \in DreamRows /\ DreamRow(p) = dream[Run(p)]
         /\ DreamRow(p).holder = p /\ DreamRow(p).status = "running"
         /\ RunAgrees(Run(p)) /\ DreamerRules(d[p]) /\ ClaimRules(d[p])
BY OfDreamer DEF HasClaim, RunAgrees, DreamRow

\* The row saveCheckpoint writes; a checkpoint never takes the phase back.
Checkpoint(p, phase, provider) == [DreamRow(p) EXCEPT !.phase = phase, !.provider = provider]

LEMMA CheckpointOK ==
  ASSUME DreamInv, NEW p \in Dreamers, d[p].pc \in AtRun, HasClaim(p),
         NEW phase \in DreamPhases,
         NEW provider \in {"not_started", "started", "terminal", "indeterminate"},
         NEW rw, rw = Checkpoint(p, phase, provider),
         HasBegun(Run(p)) => phase \in {"provider_started", "provider_terminal"},
         phase \in {"none", "seed_done"} => Seeding(Run(p)),
         phase \in {"deep_done", "provider_started", "provider_terminal"} =>
           promotions[Run(p)] = 1,
         provider \in {"terminal", "indeterminate"} /\ authz[Run(p)].state # "none" =>
           Rests(Run(p))
  PROVE  /\ RowOK(Run(p), p, rw)
         /\ rw.phase = phase /\ rw.provider = provider /\ rw.holder = p
<1>1. /\ DreamRow(p) \in DreamRows /\ DreamRow(p).holder = p
      /\ DreamRow(p).status = "running"
  BY ClaimRow
<1>2. PICK x : x = DreamRow(p)
  OBVIOUS
<1>3. rw = [x EXCEPT !.phase = phase, !.provider = provider]
  BY <1>2 DEF Checkpoint
<1>4. x \in DreamRows /\ x.holder = p /\ x.status = "running"
  BY <1>1, <1>2
<1>5. /\ rw \in DreamRows /\ rw.phase = phase /\ rw.provider = provider
      /\ rw.holder = p /\ rw.status = "running"
  BY ONLY <1>3, <1>4, phase \in DreamPhases,
     provider \in {"not_started", "started", "terminal", "indeterminate"} DEF DreamRows
<1> QED
  BY <1>5 DEF RowOK

LEMMA FreezeStep ==
  ASSUME DreamInv, NEW p \in Dreamers, Freeze(p)
  PROVE  DreamInv'
<1>1. d[p].pc = "freeze" /\ "freeze" \in AtRun
  BY DEF Freeze, Stands, AtRun
<1>2. PICK rw : rw = Checkpoint(p, DreamRow(p).phase, "indeterminate")
  OBVIOUS
<1>3. /\ HasClaim(p) /\ UNCHANGED <<vars, files, promotions, prompts>>
      /\ dream' = [dream EXCEPT ![Run(p)] = rw] \/ UNCHANGED dream
      /\ Pending(p) \/ Throws(p)
  BY <1>2 DEF Freeze, saveCheckpoint, RunCall, Attempt, Checkpoint
<1>4. /\ Run(p) \in Turns /\ DreamRow(p).phase = "deep_started"
      /\ authz[Run(p)].state = "none" /\ ~HasBegun(Run(p))
  BY <1>1, <1>3, ClaimRow DEF ClaimRules, Run, RunAgrees, HasBegun
<1>5. RowOK(Run(p), p, rw)
  BY <1>1, <1>2, <1>3, <1>4, CheckpointOK DEF DreamPhases
<1> QED
  BY <1>1, <1>3, <1>4, <1>5, WaysToLeave, RowLeaves

\* The checkpoints before the provider, each with the place that follows it.
LEMMA CheckpointStep ==
  ASSUME DreamInv, NEW p \in Dreamers, d[p].pc \in AtRun,
         NEW phase \in DreamPhases, NEW provider \in {"not_started", "started"},
         NEW pc \in {"deep", "promote", "begin", "reserve"},
         saveCheckpoint(p, phase, provider, To(p, pc), Throws(p)),
         HasBegun(Run(p)) => phase = "provider_started",
         phase \in {"none", "seed_done"} => Seeding(Run(p)),
         phase \in {"deep_done", "provider_started"} => promotions[Run(p)] = 1,
         phase # "provider_terminal",
         pc = "deep" => phase = "seed_done",
         pc = "promote" => phase = "deep_started" /\ Seeding(Run(p)),
         pc = "begin" => phase = "deep_done",
         pc = "reserve" => phase = "provider_started" /\ provider = "started"
  PROVE  DreamInv'
<1>1. PICK rw : rw = Checkpoint(p, phase, provider)
  OBVIOUS
<1>2. /\ HasClaim(p) /\ UNCHANGED <<vars, files, promotions, prompts>>
      /\ \/ dream' = [dream EXCEPT ![Run(p)] = rw] /\ To(p, pc)
         \/ /\ dream' = [dream EXCEPT ![Run(p)] = rw] \/ UNCHANGED dream
            /\ Throws(p)
  BY <1>1 DEF saveCheckpoint, RunCall, Attempt, Checkpoint
<1>3. Run(p) \in Turns /\ RunAgrees(Run(p))
  BY <1>2, ClaimRow
<1>4. RowOK(Run(p), p, rw) /\ rw.phase = phase /\ rw.provider = provider
  BY <1>1, <1>2, CheckpointOK
<1>5. CASE Throws(p)
  BY <1>2, <1>3, <1>4, <1>5, WaysToLeave, RowLeaves
<1>6. CASE dream' = [dream EXCEPT ![Run(p)] = rw] /\ To(p, pc)
  <2>1. PICK l \in DreamLocals : Continue(p, l) /\ l.pc = pc /\ l.r = Run(p)
    <3>1. pc \in DreamPlaces
      BY DEF DreamPlaces, AtRun
    <3> QED
      BY <1>6, <3>1, GoesToPlace
  <2>2. dream'[Run(p)].phase = phase /\ dream'[Run(p)].provider = provider
    BY <1>3, <1>4, <1>6 DEF DreamInv, DreamTypes
  <2>3. pc = "promote" => promotions'[Run(p)] = 0
    BY <1>2, <1>3 DEF RunAgrees
  <2>4. DreamerRules(l)' /\ ClaimRules(l)'
    BY <1>3, <2>1, <2>2, <2>3 DEF DreamerRules, ClaimRules, InTurn, HasBegun, Seeding
  <2> QED
    BY <1>2, <1>3, <1>4, <1>6, <2>1, <2>4, RowStep
<1> QED
  BY <1>2, <1>5, <1>6

LEMMA SeedStep ==
  ASSUME DreamInv, NEW p \in Dreamers, Seed(p)
  PROVE  DreamInv'
<1>1. d[p].pc = "seed" /\ "seed" \in AtRun
  BY DEF Seed, Stands, AtRun
<1>2. CASE Pass(To(p, "skip"))
  BY <1>1, <1>2, WaysToLeave, QuietLeaves DEF Pass, Plain, rowsOfDreams
<1>3. CASE saveCheckpoint(p, "seed_done", "not_started", To(p, "deep"), Throws(p))
  <2>1. Seeding(Run(p)) /\ ~HasBegun(Run(p))
    BY <1>1, <1>3, ClaimRow DEF saveCheckpoint, RunCall, ClaimRules, Run, Seeding, HasBegun
  <2> QED
    BY <1>1, <1>3, <2>1, CheckpointStep DEF DreamPhases
<1> QED
  BY <1>2, <1>3 DEF Seed

LEMMA BeginPromotionStep ==
  ASSUME DreamInv, NEW p \in Dreamers, BeginPromotion(p)
  PROVE  DreamInv'
<1>1. /\ d[p].pc = "deep" /\ "deep" \in AtRun
      /\ saveCheckpoint(p, "deep_started", "not_started", To(p, "promote"), Throws(p))
  BY DEF BeginPromotion, Stands, AtRun
<1>2. Seeding(Run(p)) /\ ~HasBegun(Run(p))
  BY <1>1, ClaimRow DEF saveCheckpoint, RunCall, ClaimRules, Run, Seeding, HasBegun
<1> QED
  BY <1>1, <1>2, CheckpointStep DEF DreamPhases

LEMMA EndPromotionStep ==
  ASSUME DreamInv, NEW p \in Dreamers, EndPromotion(p)
  PROVE  DreamInv'
<1>1. /\ d[p].pc = "promoted" /\ "promoted" \in AtRun
      /\ saveCheckpoint(p, "deep_done", "not_started", To(p, "begin"), Throws(p))
  BY DEF EndPromotion, Stands, AtRun
<1>2. promotions[Run(p)] = 1 /\ ~HasBegun(Run(p))
  BY <1>1, ClaimRow DEF saveCheckpoint, RunCall, ClaimRules, DreamerRules, Run, HasBegun
<1> QED
  BY <1>1, <1>2, CheckpointStep DEF DreamPhases

LEMMA BeginProviderStep ==
  ASSUME DreamInv, NEW p \in Dreamers, BeginProvider(p)
  PROVE  DreamInv'
<1>1. /\ d[p].pc = "begin" /\ "begin" \in AtRun
      /\ saveCheckpoint(p, "provider_started", "started", To(p, "reserve"), Throws(p))
  BY DEF BeginProvider, Stands, AtRun
<1>2. promotions[Run(p)] = 1
  BY <1>1, ClaimRow DEF saveCheckpoint, RunCall, ClaimRules, RunAgrees, Run, HasBegun
<1> QED
  BY <1>1, <1>2, CheckpointStep DEF DreamPhases

LEMMA SettledRests ==
  ASSUME DreamInv, NEW r \in Turns, authz[r].state = "settled"
  PROVE  Rests(r)
<1>1. /\ Max[r] \in Nat /\ authz[r].charged \in Nat /\ authz[r].charged <= Max[r]
      /\ usage[r].status \in {"completed", "error"} /\ usage[r].manna = authz[r].charged
  BY Unfolded DEF DreamInv, IInv, MoneyOf, SettledUsageExact, Authorization
<1>2. Returned(r) = Max[r] - authz[r].charged
  BY DEF Returned
<1> QED
  BY <1>1, <1>2 DEF Rests, Terminal

LEMMA CompletedRests ==
  ASSUME DreamInv, NEW r \in Turns, usage[r].status = "completed"
  PROVE  Rests(r)
BY SettledRests DEF DreamInv, RunAgrees

LEMMA EndOfRunStep ==
  ASSUME DreamInv, NEW p \in Dreamers, completeRun(p) \/ skipRun(p) \/ failRun(p)
  PROVE  DreamInv'
<1>1. d[p].pc \in AtRun
  BY DEF completeRun, skipRun, failRun, Stands, AtRun
<1>2. ASSUME NEW resolved, AfterDream(p, resolved)
      PROVE  Leaves(p)
  BY <1>1, <1>2, WaysToLeave DEF AfterDream
<1>3. HasClaim(p) /\ UNCHANGED <<vars, files, promotions, prompts>> /\ Leaves(p)
  <2>1. CASE completeRun(p)
    BY <1>1, <1>2, <2>1, WaysToLeave DEF completeRun, RunCall, Attempt
  <2>2. CASE skipRun(p)
    BY <1>1, <1>2, <2>2, WaysToLeave DEF skipRun, RunCall, Attempt
  <2>3. CASE failRun(p)
    BY <1>1, <1>2, <2>3, WaysToLeave DEF failRun, RunCall, Attempt
  <2> QED
    BY <2>1, <2>2, <2>3
<1>4. PICK x : x = DreamRow(p)
  OBVIOUS
<1>5. /\ Run(p) \in Turns /\ x \in DreamRows /\ x = dream[Run(p)]
      /\ RunAgrees(Run(p)) /\ DreamerRules(d[p]) /\ d[p] \in DreamLocals
  BY <1>1, <1>3, <1>4, ClaimRow, OfDreamer
<1>6. CASE completeRun(p)
  <2>1. PICK rw : rw = [x EXCEPT !.status = "done", !.provider = "terminal",
                                   !.holder = NoDreamer]
    OBVIOUS
  <2>2. dream' = [dream EXCEPT ![Run(p)] = rw] \/ UNCHANGED dream
    BY <1>4, <1>6, <2>1 DEF completeRun, RunCall, Attempt
  <2>3. /\ rw \in DreamRows /\ rw.status = "done" /\ rw.provider = "terminal"
        /\ rw.holder = NoDreamer /\ rw.phase = x.phase
    BY ONLY <1>5, <2>1 DEF DreamRows
  <2>4. /\ usage[Run(p)].status = "completed" /\ files[Run(p)] = "both"
        /\ Rests(Run(p))
    BY <1>5, <1>6, CompletedRests DEF completeRun, Stands, DreamerRules, Run
  <2>5. RowOK(Run(p), p, rw)
    BY <1>5, <2>3, <2>4 DEF RowOK, RunAgrees, HasBegun, Seeding
  <2> QED
    BY <1>3, <1>5, <2>2, <2>5, RowLeaves
<1>7. ASSUME NEW st \in {"skipped", "recovery_pending", "error"},
             RunCall(p, [DreamRow(p) EXCEPT !.status = st, !.holder = NoDreamer], TRUE, TRUE)
      PROVE  DreamInv'
  <2>1. PICK rw : rw = [x EXCEPT !.status = st, !.holder = NoDreamer]
    OBVIOUS
  <2>2. dream' = [dream EXCEPT ![Run(p)] = rw] \/ UNCHANGED dream
    BY <1>4, <1>7, <2>1 DEF RunCall, Attempt
  <2>3. /\ rw \in DreamRows /\ rw.status = st /\ rw.holder = NoDreamer
        /\ rw.phase = x.phase /\ rw.provider = x.provider
    BY ONLY <1>5, <2>1 DEF DreamRows
  <2>4. RowOK(Run(p), p, rw)
    BY <1>5, <2>3 DEF RowOK, RunAgrees, HasBegun, Seeding
  <2> QED
    BY <1>3, <1>5, <2>2, <2>4, RowLeaves
<1>8. CASE skipRun(p)
  BY <1>7, <1>8 DEF skipRun, RunCall, Attempt
<1>9. CASE failRun(p)
  <2>1. d[p].outcome \in {"recovery_pending", "error"}
    BY <1>5, <1>9 DEF failRun, Stands, DreamerRules, DreamLocals
  <2>2. RunCall(p, [DreamRow(p) EXCEPT !.status = d[p].outcome, !.holder = NoDreamer],
                TRUE, TRUE)
    BY <1>9 DEF failRun, RunCall, Attempt
  <2> QED
    BY <1>7, <2>1, <2>2
<1> QED
  BY <1>6, <1>8, <1>9

-----------------------------------------------------------------------------
(* Dreams: the steps of nobody, and those that only look.                  *)

\* Leases lapse and days end; no phase and no claim is given.
LEMMA NobodysStep ==
  ASSUME DreamInv, UNCHANGED <<vars, d, files, promotions, prompts>>,
         dream' \in [Turns -> DreamRows],
         \A r \in Turns :
           /\ dream'[r].holder \in {dream[r].holder, NoDreamer}
           /\ dream'[r].status = dream[r].status /\ dream'[r].phase = dream[r].phase
           /\ dream'[r].provider = dream[r].provider
  PROVE  DreamInv'
<1>1. /\ KernelKept /\ UNCHANGED vars /\ UNCHANGED <<files, promotions, prompts>>
      /\ UNCHANGED d
  BY NothingMoves
<1>2. \A r \in Turns : RunAgrees(r)'
  <2> SUFFICES ASSUME NEW r \in Turns PROVE RunAgrees(r)'
    OBVIOUS
  <2>1. RunAgrees(r)
    BY DEF DreamInv
  <2> QED
    BY <1>1, <2>1 DEF RunAgrees, HasBegun, Seeding, Rests, Returned, vars
<1>3. DreamTypes'
  BY <1>1 DEF DreamInv, DreamTypes
<1>4. RowsGrow({})
  BY <1>1, DreamsAssumption DEF RowsGrow, HasBegun, Seeding, vars
<1> QED
  BY <1>1, <1>2, <1>3, <1>4, DreamFrame

LEMMA LapseStep ==
  ASSUME DreamInv, SweepLapses \/ NewDay \/ \E r \in Turns : RunLapses(r)
  PROVE  DreamInv'
<1>1. /\ dream \in [Turns -> DreamRows]
      /\ UNCHANGED <<vars, d, files, promotions, prompts>>
  BY DEF DreamInv, DreamTypes, SweepLapses, NewDay, RunLapses
<1>2. CASE SweepLapses
  BY <1>1, <1>2, NobodysStep DEF SweepLapses
<1>3. CASE NewDay
  <2>1. /\ dream' \in [Turns -> DreamRows]
        /\ \A r \in Turns : dream'[r] = [dream[r] EXCEPT !.today = FALSE]
    BY <1>1, <1>3 DEF NewDay, DreamRows
  <2>2. \A r \in Turns :
          /\ dream'[r].holder = dream[r].holder /\ dream'[r].status = dream[r].status
          /\ dream'[r].phase = dream[r].phase /\ dream'[r].provider = dream[r].provider
    BY <1>1, <2>1 DEF DreamRows
  <2> QED
    BY <1>1, <2>1, <2>2, NobodysStep
<1>4. ASSUME NEW o \in Turns, RunLapses(o)
      PROVE  DreamInv'
  <2>1. dream' = [dream EXCEPT ![o].holder = NoDreamer]
    BY <1>4 DEF RunLapses
  <2>2. /\ dream' \in [Turns -> DreamRows]
        /\ \A r \in Turns :
             /\ dream'[r].holder \in {dream[r].holder, NoDreamer}
             /\ dream'[r].status = dream[r].status /\ dream'[r].phase = dream[r].phase
             /\ dream'[r].provider = dream[r].provider
    BY <1>1, <2>1 DEF DreamRows
  <2> QED
    BY <1>1, <2>2, NobodysStep
<1> QED
  BY <1>2, <1>3, <1>4

LEMMA SleepLeaves ==
  ASSUME DreamInv, NEW p \in Dreamers, Sleep(p) \/ To(p, "start") \/ To(p, "finish")
  PROVE  Leaves(p)
<1>1. CASE Sleep(p)
  BY <1>1, AsleepLocal DEF Sleep, Leaves
<1>2. ASSUME NEW pc \in {"start", "finish"}, To(p, pc)
      PROVE  Leaves(p)
  BY <1>2, GoesToPlace DEF Leaves, DreamPlaces
<1> QED
  BY <1>1, <1>2

LEMMA SweepStep ==
  ASSUME DreamInv, NEW p \in Dreamers,
         ClaimSweep(p) \/ finishSweep(p) \/ DreamCrash(p)
  PROVE  DreamInv'
<1>1. UNCHANGED <<vars, dream, files, promotions, prompts>>
  BY DEF ClaimSweep, finishSweep, DreamCrash, rowsOfDreams
<1>2. Leaves(p) \/ UNCHANGED d
  <2>1. Sleep(p) \/ To(p, "start") \/ To(p, "finish") \/ UNCHANGED d
    BY DEF ClaimSweep, finishSweep, DreamCrash, Attempt
  <2> QED
    BY <2>1, SleepLeaves
<1>3. CASE UNCHANGED d
  BY <1>1, <1>3, NobodysStep DEF DreamInv, DreamTypes
<1> QED
  BY <1>1, <1>2, <1>3, QuietLeaves

LEMMA SupersededStep ==
  ASSUME DreamInv, NEW p \in Dreamers, ClaimSuperseded(p)
  PROVE  DreamInv'
<1>1. /\ d[p].pc \in AtRun
      /\ To(p, "thrown") \/ To(p, "returned") \/ To(p, "finish")
  BY DEF ClaimSuperseded, Pass, AtRun, InTurn
<1>2. Leaves(p)
  BY <1>1, WaysToLeave DEF Plain
<1> QED
  BY <1>2, QuietLeaves DEF ClaimSuperseded, Pass, rowsOfDreams

\* The statement claims a run, or inserts one that has never been.
LEMMA StartRunStep ==
  ASSUME DreamInv, NEW p \in Dreamers, startRun(p)
  PROVE  DreamInv'
<1>1. CASE Pass(To(p, "finish"))
  BY <1>1, SleepLeaves, QuietLeaves DEF Pass, rowsOfDreams
<1> DEFINE Claims(r) ==
             /\ Recoverable(r) \/ Insertable(r)
             /\ Attempt(ClaimRun(p, r), UNCHANGED dream,
                        Continue(p, [Asleep EXCEPT !.pc = "inspect", !.r = r,
                                                   !.recovery = Recoverable(r)]),
                        Sleep(p))
<1>2. ASSUME NEW r \in Turns, Claims(r), UNCHANGED <<vars, files, promotions, prompts>>
      PROVE  DreamInv'
  <2>1. PICK rw : rw = IF Recoverable(r)
                         THEN [dream[r] EXCEPT !.status = "running", !.holder = p]
                         ELSE [NoDream EXCEPT !.status = "running", !.holder = p,
                                              !.today = TRUE]
    OBVIOUS
  <2>2. /\ dream' = [dream EXCEPT ![r] = rw] \/ UNCHANGED dream
        /\ \/ Continue(p, [Asleep EXCEPT !.pc = "inspect", !.r = r,
                                         !.recovery = Recoverable(r)])
           \/ Sleep(p)
    BY <1>2, <2>1 DEF Attempt, ClaimRun
  <2>3. Leaves(p)
    <3>1. CASE Continue(p, [Asleep EXCEPT !.pc = "inspect", !.r = r,
                                          !.recovery = Recoverable(r)])
      <4>1. PICK b \in BOOLEAN : b = Recoverable(r)
        BY DEF Recoverable
      <4>2. PICK l : l = [Asleep EXCEPT !.pc = "inspect", !.r = r, !.recovery = b]
        OBVIOUS
      <4>3. l \in DreamLocals /\ l.pc = "inspect" /\ l.r = r
        <5>1. r \in Ops
          BY TurnsAssumption
        <5> QED
          BY ONLY <4>1, <4>2, <5>1 DEF Asleep, DreamLocals, DreamPlaces, AtRun
      <4>4. Continue(p, l)
        BY <3>1, <4>1, <4>2
      <4> QED
        BY <4>3, <4>4 DEF Leaves, Plain
    <3> QED
      BY <2>2, <3>1, SleepLeaves
  <2>4. RowOK(r, p, rw)
    <3>1. dream[r] \in DreamRows /\ RunAgrees(r)
      BY DEF DreamInv, DreamTypes
    <3>2. CASE Recoverable(r)
      <4>1. rw = [dream[r] EXCEPT !.status = "running", !.holder = p]
        BY <2>1, <3>2
      <4>2. /\ rw \in DreamRows /\ rw.status = "running" /\ rw.holder = p
            /\ rw.phase = dream[r].phase /\ rw.provider = dream[r].provider
        BY <3>1, <4>1 DEF DreamRows
      <4> QED
        BY <3>1, <4>2 DEF RowOK, RunAgrees, HasBegun, Seeding
    <3>3. CASE ~Recoverable(r)
      <4>1. /\ rw \in DreamRows /\ rw.status = "running" /\ rw.holder = p
            /\ rw.phase = "none" /\ rw.provider = "not_started"
        BY <2>1, <3>3 DEF NoDream, DreamRows, DreamPhases
      <4>2. dream[r].phase = "none"
        BY <1>2, <3>1, <3>3 DEF Insertable, RunAgrees
      <4> QED
        BY <3>1, <4>1, <4>2 DEF RowOK, HasBegun, Seeding
    <3> QED
      BY <3>2, <3>3
  <2> QED
    BY <1>2, <2>2, <2>3, <2>4, RowLeaves
<1>3. \/ Pass(To(p, "finish"))
      \/ /\ \E r \in Turns : Claims(r)
         /\ UNCHANGED <<vars, sweep, files, malformed, promotions, prompts>>
  BY Zenon DEF startRun
<1> HIDE DEF Claims
<1> QED
  BY <1>1, <1>2, <1>3

\* p goes on with a usage row, or with a debit.
Sees(p) ==
  \/ /\ usage[Run(p)].status # "none"
     /\ Continue(p, [d[p] EXCEPT !.pc = "recover", !.seen = Evidence(Run(p))])
  \/ /\ Applied(ledger, OpKey(Run(p)))
     /\ Continue(p, [d[p] EXCEPT !.pc = "undo", !.seen = "indeterminate"])

\* What an inspection sees stays true.
LEMMA SeesStep ==
  ASSUME DreamInv, NEW p \in Dreamers, d[p].pc \in AtRun,
         UNCHANGED <<vars, dream, files, promotions, prompts>>,
         Sees(p)
  PROVE  DreamInv'
<1>1. PICK x : x = d[p]
  OBVIOUS
<1>2. x \in DreamLocals /\ x.r = Run(p) /\ x.r \in Turns
  BY <1>1, OfDreamer DEF Run
<1>3. PICK seen : seen = Evidence(Run(p))
  OBVIOUS
<1>4. /\ seen \in {"completed", "partial", "charged", "free"}
      /\ seen = "completed" => usage[x.r].status = "completed"
      /\ seen = "partial" => authz[x.r].state = "settled" /\ usage[x.r].status = "error"
      /\ seen = "charged" => Applied(ledger, OpKey(x.r))
      /\ seen = "free" => ~Applied(ledger, OpKey(x.r))
  BY <1>2, <1>3 DEF Evidence
<1>5. Applied(ledger, OpKey(x.r)) <=> authz[x.r].state # "none"
  BY <1>2, Unfolded DEF DreamInv, MoneyOf, IsDebit
<1>6. CASE /\ usage[x.r].status # "none"
           /\ Continue(p, [x EXCEPT !.pc = "recover", !.seen = seen])
  <2>1. PICK l : l = [x EXCEPT !.pc = "recover", !.seen = seen]
    OBVIOUS
  <2>2. l \in DreamLocals /\ l.pc = "recover" /\ l.r = x.r /\ l.seen = seen
    BY ONLY <1>2, <1>4, <2>1 DEF DreamLocals, DreamPlaces, AtRun
  <2>3. DreamerRules(l) /\ ClaimRules(l)
    BY <1>2, <1>4, <1>5, <1>6, <2>2 DEF DreamerRules, ClaimRules, InTurn
  <2> QED
    BY <1>6, <2>1, <2>2, <2>3, QuietStep
<1>7. CASE /\ Applied(ledger, OpKey(x.r))
           /\ Continue(p, [x EXCEPT !.pc = "undo", !.seen = "indeterminate"])
  <2>1. PICK l : l = [x EXCEPT !.pc = "undo", !.seen = "indeterminate"]
    OBVIOUS
  <2>2. l \in DreamLocals /\ l.pc = "undo" /\ l.r = x.r
    BY ONLY <1>2, <2>1 DEF DreamLocals, DreamPlaces, AtRun
  <2>3. DreamerRules(l) /\ ClaimRules(l)
    BY <1>2, <1>5, <1>7, <2>2 DEF DreamerRules, ClaimRules, InTurn
  <2> QED
    BY <1>7, <2>1, <2>2, <2>3, QuietStep
<1> QED
  BY <1>1, <1>2, <1>3, <1>6, <1>7 DEF Sees

LEMMA InspectAgainStep ==
  ASSUME DreamInv, NEW p \in Dreamers, InspectAgain(p)
  PROVE  DreamInv'
<1>1. d[p].pc \in AtRun
  BY DEF InspectAgain, Stands, AtRun
<1>2. UNCHANGED <<vars, dream, files, promotions, prompts>>
  BY DEF InspectAgain, Inspected, Pass, rowsOfDreams
<1>3. CASE Throws(p) \/ Pending(p)
  BY <1>1, <1>2, <1>3, WaysToLeave, QuietLeaves
<1>4. CASE ~Throws(p) /\ ~Pending(p)
  <2>1. Sees(p)
    BY <1>4 DEF InspectAgain, Inspected, Pass, Sees
  <2> QED
    BY <1>1, <1>2, <2>1, SeesStep
<1> QED
  BY <1>3, <1>4

LEMMA InspectFirstStep ==
  ASSUME DreamInv, NEW p \in Dreamers, InspectFirst(p)
  PROVE  DreamInv'
<1>1. d[p].pc \in AtRun
  BY DEF InspectFirst, Stands, AtRun
<1>2. UNCHANGED <<vars, dream, files, promotions, prompts>>
  BY DEF InspectFirst, Inspected, Pass, rowsOfDreams
<1> DEFINE next == NextPhase(Run(p))
<1>3. CASE Throws(p) \/ Pending(p) \/ Resolved(p)
  BY <1>1, <1>2, <1>3, WaysToLeave, QuietLeaves
<1>4. CASE next # "none" /\ To(p, next)
  <2>1. /\ next \in {"seed", "deep", "freeze", "begin"} /\ next \in DreamPlaces
        /\ next = "seed" => DreamRow(p).phase = "none"
        /\ next = "deep" => DreamRow(p).phase = "seed_done"
        /\ next = "freeze" => DreamRow(p).phase = "deep_started"
        /\ next = "begin" => DreamRow(p).phase \in {"deep_done", "provider_started"}
    BY <1>4 DEF NextPhase, DreamRow, DreamPlaces, AtRun
  <2> HIDE DEF next
  <2>2. PICK l \in DreamLocals : Continue(p, l) /\ l.pc = next /\ l.r = Run(p)
    BY <1>4, <2>1, GoesToPlace
  <2>3. Run(p) \in Turns
    BY <1>1, OfDreamer
  <2>4. DreamerRules(l) /\ ClaimRules(l)
    BY <2>1, <2>2, <2>3 DEF DreamerRules, ClaimRules, InTurn, DreamRow
  <2> QED
    BY <1>2, <2>1, <2>2, <2>4, QuietStep
<1>5. CASE Sees(p)
  BY <1>1, <1>2, <1>5, SeesStep
<1> HIDE DEF next
<1>6. \/ Throws(p) \/ Pending(p) \/ Resolved(p)
      \/ next # "none" /\ To(p, next)
      \/ Sees(p)
  BY DEF InspectFirst, Inspected, Pass, next, Sees
<1> QED
  BY <1>3, <1>4, <1>5, <1>6

-----------------------------------------------------------------------------
(* Dreams: the turn and its recovery.                                      *)

\* p goes on in the turn of its run, or has left it.
InTheTurn(p) ==
  \E l \in DreamLocals :
    /\ Continue(p, l) /\ l.r = Run(p)
    /\ l.pc \in InTurn \ {"provider"} \/ l.pc \in Plain \ {"fail"}

ToRow(p, refunded) == Continue(p, [d[p] EXCEPT !.pc = "row", !.refunded = refunded])
Marks(p) == Continue(p, [d[p] EXCEPT !.marked = TRUE])

LEMMA WaysOfTurn ==
  ASSUME DreamInv, NEW p \in Dreamers,
         \/ \E pc \in (InTurn \ {"provider"}) \cup (Plain \ {"fail"}) : To(p, pc)
         \/ \E b \in BOOLEAN : DreamFails(p, b)
         \/ \E b \in BOOLEAN : ToRow(p, b)
         \/ d[p].pc = "stream" /\ Marks(p)
  PROVE  InTheTurn(p)
<1>1. ASSUME NEW pc \in (InTurn \ {"provider"}) \cup (Plain \ {"fail"}), To(p, pc)
      PROVE  InTheTurn(p)
  <2>1. pc \in DreamPlaces
    BY DEF DreamPlaces, AtRun, InTurn, Plain
  <2> QED
    BY <1>1, <2>1, GoesToPlace DEF InTheTurn
<1>2. PICK x : x = d[p]
  OBVIOUS
<1>3. x \in DreamLocals /\ x.r = Run(p)
  BY <1>2, OfDreamer DEF Run
<1>4. ASSUME NEW b \in BOOLEAN, DreamFails(p, b)
      PROVE  InTheTurn(p)
  <2>1. PICK l : l = [x EXCEPT !.pc = "reverse", !.report = b]
    OBVIOUS
  <2>2. l \in DreamLocals /\ l.pc = "reverse" /\ l.r = x.r
    BY ONLY <1>3, <2>1, b \in BOOLEAN DEF DreamLocals, DreamPlaces, AtRun, InTurn
  <2>3. Continue(p, l)
    BY ONLY <1>2, <1>4, <2>1 DEF DreamFails
  <2> QED
    BY <1>3, <2>2, <2>3 DEF InTheTurn, InTurn
<1>5. ASSUME NEW b \in BOOLEAN, ToRow(p, b)
      PROVE  InTheTurn(p)
  <2>1. PICK l : l = [x EXCEPT !.pc = "row", !.refunded = b]
    OBVIOUS
  <2>2. l \in DreamLocals /\ l.pc = "row" /\ l.r = x.r
    BY ONLY <1>3, <2>1, b \in BOOLEAN DEF DreamLocals, DreamPlaces, AtRun, InTurn
  <2>3. Continue(p, l)
    BY ONLY <1>2, <1>5, <2>1 DEF ToRow
  <2> QED
    BY <1>3, <2>2, <2>3 DEF InTheTurn, InTurn
<1>6. CASE d[p].pc = "stream" /\ Marks(p)
  <2>1. PICK l : l = [x EXCEPT !.marked = TRUE]
    OBVIOUS
  <2>2. l \in DreamLocals /\ l.pc = x.pc /\ l.r = x.r
    BY ONLY <1>3, <2>1 DEF DreamLocals
  <2>3. Continue(p, l) /\ x.pc = "stream"
    BY <1>2, <1>6, <2>1 DEF Marks
  <2> QED
    BY <1>3, <2>2, <2>3 DEF InTheTurn, InTurn
<1> QED
  BY <1>1, <1>4, <1>5, <1>6

\* A transaction on the turn, or none.
LEMMA DreamTurnStep ==
  ASSUME DreamInv, NEW p \in Dreamers,
         UNCHANGED <<dream, files, promotions, prompts>>, TurnMoves(Run(p)),
         d[p].pc \in InTurn \/ (d[p].pc \in AtRun /\ HasBegun(Run(p))), InTheTurn(p)
  PROVE  DreamInv'
<1>1. d[p].pc \in AtRun /\ HasBegun(Run(p))
  BY OfDreamer DEF DreamerRules, Run, AtRun
<1> QED
  BY <1>1, TurnCall DEF InTheTurn

LEMMA KernelLeaves ==
  ASSUME DreamInv, NEW p \in Dreamers, Leaves(p),
         UNCHANGED <<dream, files, promotions, prompts>>,
         KernelKept, Run(p) \in Turns, HasBegun(Run(p)), Alone(Run(p)), authz[Run(p)].state # "none"
  PROVE  DreamInv'
<1>1. PICK l \in DreamLocals :
        /\ Continue(p, l)
        /\ \/ l.pc \in Plain /\ l.r \in Turns /\ (l.pc = "fail" => l.outcome # "none")
           \/ l.pc \in {"idle", "start", "finish"}
  BY DEF Leaves
<1>2. l.pc \notin {"promote", "provider"}
  BY <1>1 DEF Plain
<1>3. l.pc \in AtRun => DreamerRules(l)' /\ ClaimRules(l)'
  BY <1>1, PlainRules DEF AtRun, InTurn
<1> QED
  BY <1>1, <1>2, <1>3, KernelStep

LEMMA ReserveDreamStep ==
  ASSUME DreamInv, NEW p \in Dreamers, ReserveDream(p)
  PROVE  DreamInv'
<1>1. /\ d[p].pc = "reserve" /\ d[p].pc \in AtRun /\ HasClaim(p)
      /\ UNCHANGED <<dream, files, promotions, prompts>>
  BY DEF ReserveDream, Stands, AtRun, FundingCall, rowsOfDreams
<1>2. /\ HasBegun(Run(p)) /\ DreamRow(p).provider = "started" /\ Run(p) \in Turns
  BY <1>1, ClaimRow DEF ClaimRules, Run
<1>3. CASE UNCHANGED vars
  <2>1. \E pc \in {"thrown", "refused"} : To(p, pc)
    <3>1. ~reserveAuthorization(Run(p))
      <4>1. ~(authz'[Run(p)].state = authz[Run(p)].state /\ reserveAuthorization(Run(p)))
        BY <1>2, KernelRows DEF reserveAuthorization, DreamInv
      <4> QED
        BY <1>3, <4>1 DEF vars
    <3> QED
      BY <3>1 DEF ReserveDream, FundingCall, Attempt
  <2>2. InTheTurn(p)
    BY <2>1, WaysOfTurn DEF InTurn, Plain
  <2> QED
    BY <1>1, <1>2, <1>3, <2>2, DreamTurnStep DEF TurnMoves
<1>4. ASSUME reserveAuthorization(Run(p)), NEW pc \in {"ticket", "thrown"}, To(p, pc)
      PROVE  DreamInv'
  <2>1. KernelKept /\ Alone(Run(p))
    BY <1>2, <1>4, ReserveKeeps DEF DreamInv
  <2>2. PICK l \in DreamLocals : Continue(p, l) /\ l.pc = pc /\ l.r = Run(p)
    BY <1>4, GoesToPlace DEF DreamPlaces, AtRun, InTurn
  <2>3. DreamerRules(l)' /\ ClaimRules(l)'
    BY <1>1, <1>2, <2>2 DEF DreamerRules, ClaimRules, InTurn, HasBegun
  <2> QED
    BY <1>1, <1>2, <2>1, <2>2, <2>3, KernelStep
<1>5. \/ UNCHANGED vars
      \/ reserveAuthorization(Run(p)) /\ \E pc \in {"ticket", "thrown"} : To(p, pc)
  BY DEF ReserveDream, FundingCall, Attempt
<1> QED
  BY <1>3, <1>4, <1>5

LEMMA ClaimTicketStep ==
  ASSUME DreamInv, NEW p \in Dreamers, ClaimDreamTicket(p)
  PROVE  DreamInv'
<1>1. /\ d[p].pc = "ticket" /\ d[p].pc \in InTurn /\ d[p].pc \in AtRun /\ HasClaim(p)
      /\ UNCHANGED <<dream, files, promotions, prompts>>
  BY DEF ClaimDreamTicket, Stands, AtRun, InTurn, FundingCall, Pass, rowsOfDreams
<1>2. HasBegun(Run(p)) /\ Run(p) \in Turns /\ RunAgrees(Run(p))
  BY <1>1, ClaimRow DEF DreamerRules, Run
<1>3. ASSUME UNCHANGED vars \/ claimTurnProviderStart(Run(p)),
             NEW pc \in {"thrown", "giveBack"}, To(p, pc)
      PROVE  DreamInv'
  <2>1. InTheTurn(p)
    BY <1>3, WaysOfTurn DEF InTurn, Plain
  <2> QED
    BY <1>1, <1>3, <2>1, DreamTurnStep DEF TurnMoves
<1>4. CASE claimTurnProviderStart(Run(p)) /\ To(p, "provider")
  <2>1. /\ KernelKept /\ Alone(Run(p))
        /\ authz[Run(p)].state = "none" => authz'[Run(p)].state = "none"
    BY <1>2, <1>4, TurnMovesKeep DEF DreamInv, TurnMoves
  <2>2. PICK l \in DreamLocals : Continue(p, l) /\ l.pc = "provider" /\ l.r = Run(p)
    BY <1>4, GoesToPlace DEF DreamPlaces, AtRun, InTurn
  <2>3. run[Run(p)] = "none" /\ run'[Run(p)] = "started"
    BY <1>2, <1>4, KernelRows DEF claimTurnProviderStart, DreamInv
  <2>4. prompts'[Run(p)] = 0
    BY <1>1, <1>2, <2>3 DEF RunAgrees
  <2>5. DreamerRules(l)' /\ ClaimRules(l)'
    BY <1>1, <1>2, <2>2, <2>3, <2>4 DEF DreamerRules, ClaimRules, InTurn, HasBegun
  <2> QED
    BY <1>1, <1>2, <2>1, <2>2, <2>3, <2>5, KernelStep
<1>5. \/ /\ UNCHANGED vars \/ claimTurnProviderStart(Run(p))
         /\ \E pc \in {"thrown", "giveBack"} : To(p, pc)
      \/ claimTurnProviderStart(Run(p)) /\ To(p, "provider")
  BY DEF ClaimDreamTicket, FundingCall, Attempt, Pass
<1> QED
  BY <1>3, <1>4, <1>5

\* The other steps of the turn: a transaction or none, and on in the turn.
LEMMA InTurnStep ==
  ASSUME DreamInv, NEW p \in Dreamers,
         \/ RecordRefused(p) \/ GiveBack(p) \/ FirstDreamToken(p) \/ DreamFailed(p)
         \/ \E c \in Amounts \cup {0} : DreamCompleted(p, c)
         \/ ReverseDream(p) \/ RecordDreamError(p)
  PROVE  DreamInv'
<1>1. ASSUME NEW pc \in (InTurn \ {"provider"}) \cup (Plain \ {"fail"})
      PROVE  To(p, pc) => InTheTurn(p)
  BY WaysOfTurn
<1>2. ASSUME NEW b \in BOOLEAN
      PROVE  (DreamFails(p, b) => InTheTurn(p)) /\ (ToRow(p, b) => InTheTurn(p))
  BY WaysOfTurn
<1>3. /\ To(p, "thrown") => InTheTurn(p)
      /\ To(p, "returned") => InTheTurn(p)
      /\ To(p, "materialize") => InTheTurn(p)
      /\ d[p].pc = "stream" /\ Marks(p) => InTheTurn(p)
  BY <1>1, WaysOfTurn DEF Plain
<1> DEFINE Done == /\ d[p].pc \in InTurn /\ InTheTurn(p) /\ TurnMoves(Run(p))
                   /\ UNCHANGED <<dream, files, promotions, prompts>>
<1> SUFFICES Done
  BY DreamTurnStep
<1>4. CASE RecordRefused(p)
  <2>1. /\ d[p].pc \in InTurn /\ InTheTurn(p)
        /\ UNCHANGED <<dream, files, promotions, prompts>>
    BY <1>3, <1>4 DEF RecordRefused, Stands, InTurn, rowsOfDreams
  <2>2. recordUsageEvent(Run(p), 0) \/ UNCHANGED vars
    BY <1>4 DEF RecordRefused, Attempt
  <2> QED
    BY <2>1, <2>2 DEF TurnMoves
<1>5. CASE GiveBack(p)
  <2>1. /\ d[p].pc \in InTurn /\ InTheTurn(p)
        /\ UNCHANGED <<dream, files, promotions, prompts>>
    BY <1>3, <1>5 DEF GiveBack, Stands, InTurn, FundingCall, Attempt, Pass, rowsOfDreams
  <2>2. reverseAtOnce(Run(p), "reversed") \/ UNCHANGED vars
    BY <1>5 DEF GiveBack, FundingCall, Attempt, Pass
  <2> QED
    BY <2>1, <2>2 DEF TurnMoves, Refunded
<1>6. CASE FirstDreamToken(p)
  <2>1. /\ d[p].pc \in InTurn /\ d[p].pc = "stream"
        /\ UNCHANGED <<dream, files, promotions, prompts>>
        /\ markTurnUsableOutput(Run(p)) \/ UNCHANGED vars
    BY <1>6 DEF FirstDreamToken, Stands, InTurn, FundingCall, Attempt, Pass, rowsOfDreams
  <2>2. Marks(p) \/ DreamFails(p, FALSE)
    BY <1>6 DEF FirstDreamToken, FundingCall, Attempt, Pass, Marks
  <2>3. InTheTurn(p)
    BY <1>2, <1>3, <2>1, <2>2
  <2> QED
    BY <2>1, <2>3 DEF TurnMoves
<1>7. CASE DreamFailed(p)
  <2>1. /\ d[p].pc \in InTurn
        /\ UNCHANGED <<dream, files, promotions, prompts>> /\ UNCHANGED vars
        /\ \E b \in BOOLEAN : DreamFails(p, b)
    BY <1>7 DEF DreamFailed, Stands, InTurn, Pass, rowsOfDreams
  <2>2. InTheTurn(p)
    BY <2>1, WaysOfTurn
  <2> QED
    BY <2>1, <2>2 DEF TurnMoves
<1>8. ASSUME NEW c \in Amounts \cup {0}, DreamCompleted(p, c)
      PROVE  Done
  <2>1. /\ d[p].pc \in InTurn
        /\ UNCHANGED <<dream, files, promotions, prompts>>
        /\ settleTerminal(Run(p), c) \/ UNCHANGED vars
        /\ To(p, "materialize") \/ DreamFails(p, TRUE)
    BY <1>8 DEF DreamCompleted, Stands, InTurn, FundingCall, Attempt, Pass, rowsOfDreams
  <2> QED
    BY <1>2, <1>3, <2>1 DEF TurnMoves
<1>9. CASE ReverseDream(p)
  <2>1. /\ d[p].pc \in InTurn
        /\ UNCHANGED <<dream, files, promotions, prompts>>
    BY <1>9 DEF ReverseDream, Stands, InTurn, FundingCall, Pass, rowsOfDreams
  <2>2. \/ settlePartialOutputAuthorization(Run(p)) \/ reverseAtOnce(Run(p), "reversed")
        \/ UNCHANGED vars
    BY <1>9 DEF ReverseDream, FundingCall, Attempt, Pass
  <2>3. To(p, "returned") \/ ToRow(p, FALSE) \/ ToRow(p, TRUE)
    BY <1>9 DEF ReverseDream, FundingCall, Attempt, Pass, ToRow
  <2> QED
    BY <1>2, <1>3, <2>1, <2>2, <2>3 DEF TurnMoves, Refunded
<1>10. CASE RecordDreamError(p)
  <2>1. /\ d[p].pc \in InTurn
        /\ UNCHANGED <<dream, files, promotions, prompts>>
    BY <1>10 DEF RecordDreamError, Stands, InTurn, FundingCall, Pass, rowsOfDreams
  <2>2. \/ \E n \in {0, Max[Run(p)]} : recordUsageEvent(Run(p), n)
        \/ UNCHANGED vars
    BY <1>10 DEF RecordDreamError, FundingCall, Attempt, Pass
  <2>3. To(p, "returned") \/ To(p, "thrown") \/ DreamFails(p, FALSE)
    BY <1>10 DEF RecordDreamError, FundingCall, Attempt, Pass
  <2> QED
    BY <1>2, <1>3, <2>1, <2>2, <2>3 DEF TurnMoves
<1> QED
  BY <1>4, <1>5, <1>6, <1>7, <1>8, <1>9, <1>10

LEMMA UndoChargeStep ==
  ASSUME DreamInv, NEW p \in Dreamers, UndoCharge(p)
  PROVE  DreamInv'
<1>1. /\ d[p].pc = "undo" /\ d[p].pc \in AtRun /\ HasClaim(p)
      /\ UNCHANGED <<dream, files, promotions, prompts>>
  BY DEF UndoCharge, Stands, AtRun, FundingCall, Pass, rowsOfDreams
<1>2. /\ Run(p) \in Turns /\ authz[Run(p)].state # "none" /\ HasBegun(Run(p))
  BY <1>1, ClaimRow DEF DreamerRules, Run, RunAgrees
<1>3. /\ reverseAtOnce(Run(p), "reversed") \/ UNCHANGED vars
      /\ To(p, "truth") \/ Pending(p)
  BY DEF UndoCharge, FundingCall, Attempt, Pass
<1>4. KernelKept /\ Alone(Run(p))
  BY <1>2, <1>3, TurnMovesKeep DEF DreamInv, TurnMoves, Refunded
<1>5. CASE Pending(p)
  BY <1>1, <1>2, <1>4, <1>5, WaysToLeave, KernelLeaves
<1>6. CASE To(p, "truth")
  <2>1. PICK l \in DreamLocals : Continue(p, l) /\ l.pc = "truth" /\ l.r = Run(p)
    BY <1>6, GoesToPlace DEF DreamPlaces, AtRun
  <2>2. authz'[Run(p)].state # "none"
    BY <1>2, <1>4 DEF KernelKept
  <2>3. DreamerRules(l)' /\ ClaimRules(l)'
    BY <1>2, <2>1, <2>2 DEF DreamerRules, ClaimRules, InTurn
  <2> QED
    BY <1>1, <1>2, <1>4, <2>1, <2>3, KernelStep
<1> QED
  BY <1>3, <1>5, <1>6

LEMMA RecordRecoveryStep ==
  ASSUME DreamInv, NEW p \in Dreamers, RecordRecovery(p)
  PROVE  DreamInv'
<1>1. /\ d[p].pc = "truth" /\ d[p].pc \in AtRun /\ HasClaim(p)
      /\ UNCHANGED <<dream, files, promotions, prompts>>
  BY DEF RecordRecovery, Stands, AtRun, FundingCall, Pass, rowsOfDreams
<1>2. /\ Run(p) \in Turns /\ authz[Run(p)].state # "none" /\ HasBegun(Run(p))
  BY <1>1, ClaimRow DEF DreamerRules, Run, RunAgrees
<1> DEFINE ZeroWritten ==
             /\ authz[Run(p)].state \in Refunded /\ usage[Run(p)].status # "completed"
             /\ usage' = [usage EXCEPT ![Run(p)] = [status |-> "error", manna |-> 0]]
             /\ UNCHANGED <<ledger, authz, run, reversing, raced>>
<1>3. \/ ZeroWritten /\ (To(p, "settle") \/ Pending(p))
      \/ UNCHANGED vars /\ Pending(p)
  BY DEF RecordRecovery, FundingCall, Attempt, Pass
<1>4. ZeroWritten => KernelKept /\ Alone(Run(p))
  BY <1>2, RecoveryRowKeeps DEF DreamInv
<1>5. ZeroWritten =>
        /\ authz'[Run(p)].state \in Refunded
        /\ usage'[Run(p)] = [status |-> "error", manna |-> 0]
  BY <1>2, KernelRows DEF DreamInv
<1> HIDE DEF ZeroWritten
<1>6. CASE Pending(p)
  <2>1. KernelKept /\ Alone(Run(p))
    BY <1>2, <1>3, <1>4, NothingMoves
  <2> QED
    BY <1>1, <1>2, <1>6, <2>1, WaysToLeave, KernelLeaves
<1>7. CASE ZeroWritten /\ To(p, "settle")
  <2>1. PICK l \in DreamLocals : Continue(p, l) /\ l.pc = "settle" /\ l.r = Run(p)
    BY <1>7, GoesToPlace DEF DreamPlaces, AtRun
  <2>2. DreamerRules(l)' /\ ClaimRules(l)'
    BY <1>2, <1>5, <1>7, <2>1 DEF DreamerRules, ClaimRules, InTurn, Refunded
  <2> QED
    BY <1>1, <1>2, <1>4, <1>7, <2>1, <2>2, KernelStep
<1> QED
  BY <1>3, <1>6, <1>7

LEMMA CallProviderStep ==
  ASSUME DreamInv, NEW p \in Dreamers, CallDreamProvider(p)
  PROVE  DreamInv'
<1>1. /\ d[p].pc = "provider" /\ d[p].pc \in InTurn /\ d[p].pc \in AtRun
      /\ UNCHANGED <<vars, dream, files, promotions>>
  BY DEF CallDreamProvider, Stands, AtRun, InTurn, rowsOfDreams
<1>2. /\ HasBegun(Run(p)) /\ Run(p) \in Turns /\ run[Run(p)] # "none" /\ prompts[Run(p)] = 0
      /\ RunAgrees(Run(p))
  BY <1>1, OfDreamer DEF DreamerRules, Run
<1>3. CASE /\ UNCHANGED prompts
           /\ To(p, "giveBack") \/ DreamFails(p, FALSE)
  <2>1. InTheTurn(p)
    BY <1>3, WaysOfTurn DEF InTurn, Plain
  <2> QED
    BY <1>1, <1>3, <2>1, DreamTurnStep DEF TurnMoves
<1>4. CASE prompts' = [prompts EXCEPT ![Run(p)] = @ + 1] /\ To(p, "stream")
  <2>1. PICK l \in DreamLocals : Continue(p, l) /\ l.pc = "stream" /\ l.r = Run(p)
    BY <1>4, GoesToPlace DEF DreamPlaces, AtRun, InTurn
  <2>2. /\ KernelKept /\ UNCHANGED vars /\ UNCHANGED <<dream, files, promotions>>
    BY <1>1, NothingMoves
  <2>3. /\ prompts' \in [Turns -> Nat] /\ prompts'[Run(p)] = 1
        /\ \A r \in Turns \ {Run(p)} : prompts'[r] = prompts[r]
    BY <1>2, <1>4 DEF DreamInv, DreamTypes
  <2>4. \A r \in Turns : RunAgrees(r)'
    <3> SUFFICES ASSUME NEW r \in Turns PROVE RunAgrees(r)'
      OBVIOUS
    <3>1. RunAgrees(r)
      BY DEF DreamInv
    <3> QED
      BY <1>2, <2>2, <2>3, <3>1 DEF RunAgrees, HasBegun, Seeding, Rests, Returned, vars
  <2>5. DreamerRules(l)' /\ ClaimRules(l)'
    BY <1>2, <2>1, <2>2 DEF DreamerRules, ClaimRules, InTurn, HasBegun
  <2>6. /\ d' \in [Dreamers -> DreamLocals] /\ d'[p] = l /\ DreamerOK(p)'
        /\ \A q \in Dreamers \ {p} : d'[q] = d[q]
    BY <2>1, <2>5, MovedTo
  <2>7. DreamTypes'
    BY <2>2, <2>3, <2>6 DEF DreamInv, DreamTypes
  <2>8. RowsGrow({p})
    BY <1>1, <2>2, <2>3 DEF RowsGrow, HasBegun, Seeding, vars, Stands
  <2> QED
    BY <2>1, <2>2, <2>4, <2>6, <2>7, <2>8, DreamFrame
<1>5. \/ UNCHANGED prompts /\ (To(p, "giveBack") \/ DreamFails(p, FALSE))
      \/ prompts' = [prompts EXCEPT ![Run(p)] = @ + 1] /\ To(p, "stream")
  BY DEF CallDreamProvider, rowsOfDreams
<1> QED
  BY <1>3, <1>4, <1>5

LEMMA PromoteStep ==
  ASSUME DreamInv, NEW p \in Dreamers, Promote(p)
  PROVE  DreamInv'
<1>1. /\ d[p].pc = "promote" /\ d[p].pc \in AtRun
      /\ UNCHANGED <<vars, dream, files, prompts>>
  BY DEF Promote, Stands, AtRun
<1>2. /\ Run(p) \in Turns /\ promotions[Run(p)] = 0 /\ ~Seeding(Run(p))
      /\ HasClaim(p) => dream[Run(p)].phase = "deep_started"
  BY <1>1, OfDreamer DEF DreamerRules, ClaimRules, Run
<1>3. PICK n \in {0, 1} :
        /\ promotions' = [promotions EXCEPT ![Run(p)] = @ + n]
        /\ (n = 1 /\ To(p, "promoted")) \/ Throws(p)
  BY DEF Promote
<1>4. PICK l \in DreamLocals :
        /\ Continue(p, l)
        /\ l.pc \notin {"promote", "provider"}
        /\ l.pc \in AtRun => DreamerRules(l)' /\ (dream'[l.r].holder = p => ClaimRules(l)')
  <2>1. CASE Throws(p)
    <3>1. PICK l \in DreamLocals :
            /\ Continue(p, l)
            /\ \/ l.pc \in Plain /\ l.r \in Turns /\ (l.pc = "fail" => l.outcome # "none")
               \/ l.pc \in {"idle", "start", "finish"}
      BY <1>1, <2>1, WaysToLeave DEF Leaves
    <3>2. l.pc \in AtRun => DreamerRules(l)' /\ ClaimRules(l)'
      BY <3>1, PlainRules DEF AtRun, InTurn
    <3> QED
      BY <3>1, <3>2 DEF Plain
  <2>2. CASE n = 1 /\ To(p, "promoted")
    <3>1. PICK l \in DreamLocals : Continue(p, l) /\ l.pc = "promoted" /\ l.r = Run(p)
      BY <2>2, GoesToPlace DEF DreamPlaces, AtRun
    <3>2. promotions'[Run(p)] = 1
      BY <1>2, <1>3, <2>2 DEF DreamInv, DreamTypes
    <3>3. DreamerRules(l)'
      BY <1>2, <3>1, <3>2 DEF DreamerRules, InTurn
    <3>4. dream'[l.r].holder = p => ClaimRules(l)'
      BY <1>1, <1>2, <3>1 DEF ClaimRules, HasClaim, DreamRow
    <3> QED
      BY <3>1, <3>3, <3>4
  <2> QED
    BY <1>3, <2>1, <2>2
<1>5. /\ KernelKept /\ UNCHANGED vars /\ UNCHANGED <<dream, files, prompts>>
  BY <1>1, NothingMoves
<1>6. /\ promotions' \in [Turns -> Nat] /\ promotions'[Run(p)] \in {0, 1}
      /\ \A r \in Turns \ {Run(p)} : promotions'[r] = promotions[r]
  BY <1>2, <1>3 DEF DreamInv, DreamTypes
<1>7. \A r \in Turns : RunAgrees(r)'
  <2> SUFFICES ASSUME NEW r \in Turns PROVE RunAgrees(r)'
    OBVIOUS
  <2>1. RunAgrees(r)
    BY DEF DreamInv
  <2> QED
    BY <1>2, <1>5, <1>6, <2>1 DEF RunAgrees, HasBegun, Seeding, Rests, Returned, vars
<1>8. /\ d' \in [Dreamers -> DreamLocals] /\ d'[p] = l /\ DreamerOK(p)'
      /\ \A q \in Dreamers \ {p} : d'[q] = d[q]
  BY <1>4, MovedTo
<1>9. DreamTypes'
  BY <1>5, <1>6, <1>8 DEF DreamInv, DreamTypes
<1>10. RowsGrow({p})
  BY <1>1, <1>5, <1>6 DEF RowsGrow, HasBegun, Seeding, vars, Stands
<1> QED
  BY <1>4, <1>5, <1>7, <1>8, <1>9, <1>10, DreamFrame

\* Files are written, and never taken back.
LEMMA FilesStep ==
  ASSUME DreamInv, NEW p \in Dreamers, Leaves(p) \/ UNCHANGED d,
         d[p].pc \in AtRun, UNCHANGED <<vars, dream, promotions, prompts>>,
         \/ files' = [files EXCEPT ![Run(p)] = "both"]
         \/ UNCHANGED files
         \/ files' = [files EXCEPT ![Run(p)] = IF @ = "none" THEN "diary" ELSE @]
  PROVE  DreamInv'
<1>1. /\ KernelKept /\ UNCHANGED vars /\ UNCHANGED <<dream, promotions, prompts>>
  BY NothingMoves
<1>2. /\ files' \in [Turns -> {"none", "diary", "both"}]
      /\ \A r \in Turns : files[r] = "both" => files'[r] = "both"
  BY OfDreamer DEF DreamInv, DreamTypes
<1>3. \A r \in Turns : RunAgrees(r)'
  <2> SUFFICES ASSUME NEW r \in Turns PROVE RunAgrees(r)'
    OBVIOUS
  <2>1. RunAgrees(r)
    BY DEF DreamInv
  <2> QED
    BY <1>1, <1>2, <2>1 DEF RunAgrees, HasBegun, Seeding, Rests, Returned, vars
<1>4. RowsGrow({p}) /\ RowsGrow({})
  BY <1>1, <1>2 DEF RowsGrow, HasBegun, Seeding, vars
<1>5. CASE UNCHANGED d
  <2>1. DreamTypes'
    BY <1>1, <1>2, <1>5 DEF DreamInv, DreamTypes
  <2> QED
    BY <1>1, <1>3, <1>4, <1>5, <2>1, DreamFrame
<1>6. CASE Leaves(p)
  <2>1. PICK l \in DreamLocals :
          /\ Continue(p, l)
          /\ \/ l.pc \in Plain /\ l.r \in Turns /\ (l.pc = "fail" => l.outcome # "none")
             \/ l.pc \in {"idle", "start", "finish"}
    BY <1>6 DEF Leaves
  <2>2. l.pc \notin {"promote", "provider"}
    BY <2>1 DEF Plain
  <2>3. l.pc \in AtRun => DreamerRules(l)' /\ ClaimRules(l)'
    BY <2>1, PlainRules DEF AtRun, InTurn
  <2>4. /\ d' \in [Dreamers -> DreamLocals] /\ d'[p] = l /\ DreamerOK(p)'
        /\ \A q \in Dreamers \ {p} : d'[q] = d[q]
    BY <2>1, <2>3, MovedTo
  <2>5. DreamTypes'
    BY <1>1, <1>2, <2>4 DEF DreamInv, DreamTypes
  <2> QED
    BY <1>1, <1>3, <1>4, <2>2, <2>4, <2>5, DreamFrame
<1> QED
  BY <1>5, <1>6

LEMMA MaterializeStep ==
  ASSUME DreamInv, NEW p \in Dreamers, d[p].pc \in AtRun,
         \/ materialize(p, To(p, "returned"), To(p, "thrown"))
         \/ materialize(p, UNCHANGED d, Throws(p))
  PROVE  DreamInv'
<1>1. /\ UNCHANGED <<vars, dream, promotions, prompts>>
      /\ \/ files' = [files EXCEPT ![Run(p)] = "both"]
         \/ UNCHANGED files
         \/ files' = [files EXCEPT ![Run(p)] = IF @ = "none" THEN "diary" ELSE @]
      /\ To(p, "returned") \/ To(p, "thrown") \/ UNCHANGED d \/ Throws(p)
  BY DEF materialize
<1>2. Leaves(p) \/ UNCHANGED d
  BY <1>1, WaysToLeave DEF Plain
<1> QED
  BY <1>1, <1>2, FilesStep

\* A checkpoint at the end of a recovery, after which p leaves the run.
LEMMA CheckpointLeaves ==
  ASSUME DreamInv, NEW p \in Dreamers, d[p].pc \in AtRun, Leaves(p),
         NEW phase \in DreamPhases, NEW provider \in {"terminal", "indeterminate"},
         saveCheckpoint(p, phase, provider, TRUE, TRUE),
         phase \in {"provider_started", "provider_terminal"}, HasBegun(Run(p)),
         authz[Run(p)].state # "none" => Rests(Run(p))
  PROVE  DreamInv'
<1>1. PICK rw : rw = Checkpoint(p, phase, provider)
  OBVIOUS
<1>2. /\ HasClaim(p) /\ UNCHANGED <<vars, files, promotions, prompts>>
      /\ dream' = [dream EXCEPT ![Run(p)] = rw] \/ UNCHANGED dream
  BY <1>1 DEF saveCheckpoint, RunCall, Attempt, Checkpoint
<1>3. Run(p) \in Turns /\ promotions[Run(p)] = 1
  BY <1>2, ClaimRow DEF RunAgrees
<1>4. RowOK(Run(p), p, rw)
  BY <1>1, <1>2, <1>3, CheckpointOK
<1> QED
  BY <1>2, <1>3, <1>4, RowLeaves

LEMMA RecoverFailedStep ==
  ASSUME DreamInv, NEW p \in Dreamers, RecoverFailed(p)
  PROVE  DreamInv'
<1>1. d[p].pc = "recover" /\ d[p].pc \in AtRun /\ HasClaim(p)
  BY DEF RecoverFailed, Stands, AtRun
<1>2. /\ Run(p) \in Turns /\ usage[Run(p)].status # "none" /\ HasBegun(Run(p))
      /\ DreamRow(p).phase # "none"
      /\ DreamerRules(d[p]) /\ ClaimRules(d[p])
  BY <1>1, ClaimRow DEF DreamerRules, Run, RunAgrees, HasBegun
<1>3. CASE d[p].seen \in {"partial", "free"}
  <2>1. /\ Pending(p) \/ Resolved(p) \/ Throws(p)
        /\ saveCheckpoint(p, "provider_terminal", "terminal", TRUE, TRUE)
    BY <1>2, <1>3 DEF RecoverFailed, SaveTerminal, saveCheckpoint, RunCall, Attempt
  <2>2. authz[Run(p)].state # "none" => Rests(Run(p))
    BY <1>1, <1>2, <1>3, SettledRests DEF DreamerRules, ClaimRules, Run
  <2> QED
    BY <1>1, <1>2, <2>1, <2>2, WaysToLeave, CheckpointLeaves DEF DreamPhases
<1>4. CASE d[p].seen = "charged"
  <2>1. PICK x : x = d[p]
    OBVIOUS
  <2>2. PICK l : l = [x EXCEPT !.pc = "undo", !.seen = "terminal"]
    OBVIOUS
  <2>3. x \in DreamLocals
    BY <2>1, OfDreamer
  <2>4. l \in DreamLocals /\ l.pc = "undo" /\ l.r = x.r
    BY ONLY <2>2, <2>3 DEF DreamLocals, DreamPlaces, AtRun
  <2>5. Pass(Continue(p, [x EXCEPT !.pc = "undo", !.seen = "terminal"]))
    BY <1>4, <2>1 DEF RecoverFailed
  <2>6. Continue(p, l) /\ UNCHANGED <<vars, dream, files, promotions, prompts>>
    BY ONLY <2>2, <2>5 DEF Pass, rowsOfDreams
  <2>7. DreamerRules(l) /\ ClaimRules(l)
    BY <1>1, <1>2, <1>4, <2>1, <2>4 DEF DreamerRules, ClaimRules, InTurn
  <2> QED
    BY <2>4, <2>6, <2>7, QuietStep
<1> QED
  BY <1>3, <1>4 DEF RecoverFailed

LEMMA RecoverCompletedStep ==
  ASSUME DreamInv, NEW p \in Dreamers, RecoverCompleted(p)
  PROVE  DreamInv'
<1>1. d[p].pc = "recover" /\ d[p].pc \in AtRun /\ d[p].seen = "completed"
  BY DEF RecoverCompleted, Stands, AtRun
<1>2. /\ Run(p) \in Turns /\ usage[Run(p)].status = "completed" /\ HasBegun(Run(p))
      /\ promotions[Run(p)] = 1 /\ Rests(Run(p))
  BY <1>1, OfDreamer, CompletedRests DEF DreamerRules, Run, RunAgrees
<1>3. CASE Pass(Resolved(p))
  BY <1>1, <1>3, WaysToLeave, QuietLeaves DEF Pass, rowsOfDreams
<1>4. CASE materialize(p, UNCHANGED d, Throws(p))
  BY <1>1, <1>4, MaterializeStep
<1>5. CASE /\ files[Run(p)] = "both"
           /\ saveCheckpoint(p, "provider_terminal", "terminal", To(p, "complete"), Throws(p))
  <2>1. CASE Throws(p)
    <3>1. saveCheckpoint(p, "provider_terminal", "terminal", TRUE, TRUE)
      BY <1>5 DEF saveCheckpoint, RunCall, Attempt
    <3> QED
      BY <1>1, <1>2, <2>1, <3>1, WaysToLeave, CheckpointLeaves DEF DreamPhases
  <2>2. CASE ~Throws(p)
    <3>1. PICK rw : rw = Checkpoint(p, "provider_terminal", "terminal")
      OBVIOUS
    <3>2. /\ HasClaim(p) /\ UNCHANGED <<vars, files, promotions, prompts>>
          /\ dream' = [dream EXCEPT ![Run(p)] = rw] /\ To(p, "complete")
      BY <1>5, <2>2, <3>1 DEF saveCheckpoint, RunCall, Attempt, Checkpoint
    <3>3. RowOK(Run(p), p, rw)
      BY <1>1, <1>2, <3>1, <3>2, CheckpointOK DEF DreamPhases
    <3>4. PICK l \in DreamLocals : Continue(p, l) /\ l.pc = "complete" /\ l.r = Run(p)
      BY <3>2, GoesToPlace DEF DreamPlaces, AtRun
    <3>5. DreamerRules(l)' /\ ClaimRules(l)'
      BY <1>2, <1>5, <3>2, <3>4 DEF DreamerRules, ClaimRules, InTurn, vars
    <3> QED
      BY <1>2, <3>2, <3>3, <3>4, <3>5, RowStep
  <2> QED
    BY <2>1, <2>2
<1> QED
  BY <1>3, <1>4, <1>5 DEF RecoverCompleted

LEMMA SettleDreamStep ==
  ASSUME DreamInv, NEW p \in Dreamers, SettleDream(p)
  PROVE  DreamInv'
<1>1. d[p].pc = "settle" /\ d[p].pc \in AtRun /\ HasClaim(p)
  BY DEF SettleDream, Stands, AtRun
<1>2. /\ Run(p) \in Turns /\ authz[Run(p)].state \in Refunded
      /\ usage[Run(p)] = [status |-> "error", manna |-> 0] /\ HasBegun(Run(p))
      /\ DreamRow(p).phase \in {"provider_started", "provider_terminal"}
  BY <1>1, ClaimRow DEF DreamerRules, Run, RunAgrees, HasBegun
<1>3. Rests(Run(p))
  <2>1. Returned(Run(p)) = Max[Run(p)] /\ Max[Run(p)] \in Nat
    BY <1>2, KernelRows DEF Returned, Refunded, DreamInv
  <2> QED
    BY <1>2, <2>1 DEF Rests, Terminal, Refunded
<1>4. Resolved(p) \/ Pending(p)
  BY <1>2 DEF SettleDream, SaveTerminal, saveCheckpoint, RunCall, Attempt
<1>5. PICK phase : phase = DreamRow(p).phase
  OBVIOUS
<1>6. \/ saveCheckpoint(p, "provider_terminal", "terminal", TRUE, TRUE)
      \/ saveCheckpoint(p, phase, "indeterminate", TRUE, TRUE)
  BY <1>2, <1>5 DEF SettleDream, SaveTerminal, saveCheckpoint, RunCall, Attempt
<1>7. Leaves(p)
  BY <1>1, <1>4, WaysToLeave
<1> QED
  BY <1>1, <1>2, <1>3, <1>5, <1>6, <1>7, CheckpointLeaves DEF DreamPhases

LEMMA ReapDreamStep ==
  ASSUME DreamInv, NEW r \in Turns, ReapDream(r)
  PROVE  DreamInv'
<1>1. /\ UNCHANGED <<dream, files, promotions, prompts>> /\ UNCHANGED d
      /\ settlePartialOutputAuthorization(r) \/ reverseAtOnce(r, "reaped")
  BY DEF ReapDream, ownDreamVars, rowsOfDreams
<1>2. authz[r].state # "none" /\ HasBegun(r)
  <2>1. authz[r].state = "reserved"
    BY <1>1 DEF settlePartialOutputAuthorization, Settled, reverseAtOnce, IsReserved
  <2> QED
    BY <2>1 DEF DreamInv, RunAgrees
<1>3. KernelKept /\ Alone(r)
  BY <1>1, TurnMovesKeep DEF DreamInv, TurnMoves, Refunded
<1>4. \A q \in Turns : RunAgrees(q)'
  BY <1>1, <1>2, <1>3, RunsKept
<1>5. DreamTypes'
  BY <1>1 DEF DreamInv, DreamTypes
<1>6. RowsGrow({})
  BY <1>1, <1>2, <1>3 DEF RowsGrow, HasBegun, Seeding, Alone
<1> QED
  BY <1>1, <1>3, <1>4, <1>5, <1>6, DreamFrame

-----------------------------------------------------------------------------
(* Dreams: the invariant.                                                  *)

LEMMA InitDreamInv == DreamInit => DreamInv
<1> SUFFICES ASSUME DreamInit PROVE DreamInv
  OBVIOUS
<1>1. PICK a \in Accounts : ledger = credit(EmptyLedger, a, Funds, Purchase, FALSE)
  BY DEF DreamInit, FundedKernel
<1>2. NoTurns /\ Funds \in Nat \ {0} /\ Purchase \in Ops \ Turns
  BY DreamsAssumption DEF DreamInit, FundedKernel
<1>3. IInv
  BY <1>1, <1>2, FundedIInv
<1>4. /\ dream = [r \in Turns |-> NoDream] /\ NoDream \in DreamRows
      /\ NoDream.status = "none" /\ NoDream.phase = "none" /\ NoDream.holder = NoDreamer
      /\ NoDream.provider = "not_started"
      /\ d = [p \in Dreamers |-> Asleep]
      /\ files = [r \in Turns |-> "none"]
      /\ promotions = [r \in Turns |-> 0] /\ prompts = [r \in Turns |-> 0]
  BY DEF DreamInit, NoDreams, NoDream, DreamRows, DreamPhases
<1>5. DreamTypes
  BY <1>4, AsleepLocal DEF DreamTypes
<1>6. \A r \in Turns : RunAgrees(r)
  BY <1>2, <1>4 DEF NoTurns, RunAgrees, HasBegun, Seeding
<1>7. \A p \in Dreamers : DreamerOK(p)
  BY <1>4, AsleepLocal DEF DreamerOK
<1>8. OnceEach
  BY <1>4, AsleepLocal DEF OnceEach
<1> QED
  BY <1>3, <1>5, <1>6, <1>7, <1>8 DEF DreamInv

LEMMA NextDreamInv ==
  ASSUME DreamInv, [DreamNext]_dreamVars
  PROVE  DreamInv'
<1>1. ASSUME NEW p \in Dreamers, DreamStep(p)
      PROVE  DreamInv'
  <2>1. CASE \/ startRun(p) \/ InspectFirst(p) \/ InspectAgain(p) \/ Freeze(p) \/ Seed(p)
             \/ BeginPromotion(p) \/ Promote(p) \/ EndPromotion(p) \/ BeginProvider(p)
    BY <2>1, StartRunStep, InspectFirstStep, InspectAgainStep, FreezeStep, SeedStep,
       BeginPromotionStep, PromoteStep, EndPromotionStep, BeginProviderStep
  <2>2. CASE \/ RecordRefused(p) \/ GiveBack(p) \/ FirstDreamToken(p) \/ DreamFailed(p)
             \/ \E c \in Amounts \cup {0} : DreamCompleted(p, c)
             \/ ReverseDream(p) \/ RecordDreamError(p)
    BY <2>2, InTurnStep
  <2>3. CASE ReserveDream(p) \/ ClaimDreamTicket(p) \/ CallDreamProvider(p) \/ UndoCharge(p)
             \/ RecordRecovery(p) \/ RecoverFailed(p) \/ RecoverCompleted(p) \/ SettleDream(p)
    BY <2>3, ReserveDreamStep, ClaimTicketStep, CallProviderStep, UndoChargeStep,
       RecordRecoveryStep, RecoverFailedStep, RecoverCompletedStep, SettleDreamStep
  <2>4. CASE Materialize(p)
    BY <2>4, MaterializeStep DEF Materialize, Stands, AtRun
  <2>5. CASE completeRun(p) \/ skipRun(p) \/ failRun(p) \/ ClaimSuperseded(p) \/ finishSweep(p)
    BY <2>5, EndOfRunStep, SupersededStep, SweepStep
  <2> QED
    BY <1>1, <2>1, <2>2, <2>3, <2>4, <2>5 DEF DreamStep
<1>2. ASSUME NEW p \in Dreamers, ClaimSweep(p) \/ DreamCrash(p)
      PROVE  DreamInv'
  BY <1>2, SweepStep
<1>3. ASSUME NEW r \in Turns, RunLapses(r) \/ ReapDream(r)
      PROVE  DreamInv'
  BY <1>3, LapseStep, ReapDreamStep
<1>4. CASE SweepLapses \/ NewDay
  BY <1>4, LapseStep
<1>5. CASE UNCHANGED dreamVars
  <2>1. /\ UNCHANGED <<vars, d, files, promotions, prompts>> /\ dream' = dream
    BY <1>5 DEF dreamVars, ownDreamVars, rowsOfDreams
  <2> QED
    BY <2>1, NobodysStep DEF DreamInv, DreamTypes
<1> QED
  BY <1>1, <1>2, <1>3, <1>4, <1>5 DEF DreamNext

\* However often a dream crashes, loses its lease and is recovered, it promotes
\* memory and calls its provider at most once; one that is done is paid,
\* promoted and in both files; and a row that says terminal or indeterminate
\* has its money at rest and a usage row that states what it cost
\* (memory-dreaming.ts and its use of turns.ts), for any dreamers, runs and
\* bounds.
THEOREM DreamsAreExactThm == DreamSpec => []DreamsAreExact
<1>1. DreamInit => DreamInv
  BY InitDreamInv
<1>2. DreamInv /\ [DreamNext]_dreamVars => DreamInv'
  BY NextDreamInv
<1>3. DreamInv => DreamsAreExact
  <2> SUFFICES ASSUME DreamInv, NEW r \in Turns
               PROVE
                 /\ promotions[r] <= 1 /\ prompts[r] <= 1
                 /\ dream[r].status = "done" =>
                      /\ usage[r].status = "completed" /\ authz[r].state = "settled"
                      /\ files[r] = "both" /\ promotions[r] = 1
                 /\ dream[r].provider \in {"terminal", "indeterminate"}
                      /\ authz[r].state # "none" =>
                      /\ authz[r].state \in Terminal
                      /\ usage[r].status \in {"completed", "error"}
                      /\ usage[r].manna = Max[r] - alreadyRefundedManna(ledger, r)
    BY DEF DreamsAreExact
  <2>1. RunAgrees(r)
    BY DEF DreamInv
  <2>2. authz[r].state # "none" => alreadyRefundedManna(ledger, r) = Returned(r)
    BY Unfolded DEF DreamInv, MoneyOf
  <2>3. usage[r].status = "completed" => promotions[r] = 1
    BY <2>1 DEF RunAgrees
  <2> QED
    BY <2>1, <2>2, <2>3 DEF RunAgrees, Rests
<1> QED
  BY <1>1, <1>2, <1>3, PTL DEF DreamSpec
=============================================================================
