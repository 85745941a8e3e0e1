----------------------------- MODULE DeskShares ------------------------------
(***************************************************************************)
(* The programs that trade shares on the paper account without a person:    *)
(* the position guard that a timer starts, the overnight pilot with its     *)
(* file of entries, the alert webhook with its threads and the TradingAgents *)
(* session. They know of each other only through the broker's positions,    *)
(* and all of them place through place_signal_order, whose way through      *)
(* review, ledger and reservation is OrderSpine's and here one step.        *)
(*                                                                          *)
(* The broker is external: it sets aside the shares of a resting sale,      *)
(* answers HTTP 403 to a sale of more than is left, fills when it likes and *)
(* ends every order with the day. Requests may fail, and an answer may be   *)
(* lost after the order was taken.                                          *)
(***************************************************************************)
EXTENDS Integers, FiniteSets, Sequences

CONSTANTS
    Listing,    \* the shares in the order the broker lists its positions
    Price,      \* prices, in ticks
    StopPct, TargetPct,
    Thread,     \* threads of the webhook's server
    MaxLots,    \* bound: lots held and ordered of a share
    MaxFaults,  \* bound: requests that fail or whose answer is lost
    MaxAlerts,  \* bound: alerts posted to the webhook
    MaxRuns,    \* bound: entry sessions of the pilot and TradingAgents sessions
    MaxCooling  \* bound: shares put into cooldown

Share == {Listing[i] : i \in 1 .. Len(Listing)}

ASSUME DeskAssumption ==
    /\ Listing \in Seq(Share)
    /\ \A i, j \in 1 .. Len(Listing) : Listing[i] = Listing[j] => i = j
    /\ Price \subseteq Nat \ {0} /\ Price # {}
    /\ {StopPct, TargetPct} \subseteq 1 .. 99
    /\ {MaxLots, MaxFaults, MaxAlerts, MaxRuns, MaxCooling} \subseteq Nat

VARIABLES
    phase,    \* the part of the trading day
    swept,    \* a guard pass that began in this phase has ended
    killed,   \* system_controls: emergency_kill
    cooling,  \* symbol_cooldowns in force, and how many were set
    mark,     \* the broker's price of a share
    held,     \* the position: lots and average entry price
    offered,  \* lots of resting sales
    wanted,   \* lots of resting purchases
    braced,   \* those that bring their own exits, which rest as sales once they are bought
    guard,    \* the guard's pass: positions still to see, peaks as it will write them
    peaks,    \* trail.json; 0 is no entry
    pilot,    \* the overnight pilot's session
    entries,  \* overnight.json: the shares with an entry
    posted,   \* what a webhook thread is about to place
    session,  \* the TradingAgents session: tickers still to do, positions read at its start
    faults,   \* requests that failed
    alerts,   \* alerts posted
    runs,     \* sessions started
    owed,     \* ghost: shares the pilot bought that nobody has offered or sold since
    lost      \* ghost: shares whose purchase the pilot did not live to write down

deskVars == <<phase, swept, killed, cooling, mark, held, offered, wanted, braced, guard,
              peaks, pilot, entries, posted, session, faults, alerts, runs, owed, lost>>
broker == <<mark, held, wanted, braced>>
control == <<phase, swept, killed, cooling>>
ghosts == <<owed, lost>>

Phase == {"shut", "morning", "day", "late"}

\* 10:15-15:45 by runtime.json, 15:30-15:55 and 09:35-10:00 by the pilot's
\* constants; late is where the first two meet.
SessionOpen == phase \in {"day", "late"}
ExitOpen == phase = "morning"
EnterOpen == phase = "late"

Position == [share : Share, lots : Nat, cost : Nat, mark : Nat]
Resting == [pc : {"idle"}]
Idle == [pc |-> "idle"]

DeskTypeOK ==
    /\ phase \in Phase /\ swept \in BOOLEAN /\ killed \in BOOLEAN
    /\ cooling \in [shares : SUBSET Share, set : 0 .. MaxCooling]
    /\ mark \in [Share -> Price]
    /\ held \in [Share -> [lots : 0 .. MaxLots, cost : Nat]]
    /\ offered \in [Share -> 0 .. MaxLots] /\ wanted \in [Share -> 0 .. MaxLots]
    /\ braced \in [Share -> 0 .. MaxLots]
    /\ guard \in Resting \cup [pc : {"pass"}, todo : SUBSET Position, peaks : [Share -> Nat], from : Phase]
    /\ peaks \in [Share -> Nat]
    /\ pilot \in Resting \cup [pc : {"enter", "save", "exit"}, todo : Seq(Share), kept : SUBSET Share]
    /\ entries \in SUBSET Share
    /\ posted \in [Thread -> Resting \cup [pc : {"place"}, side : {"buy", "sell"}, share : Share, lots : Nat]]
    /\ session \in Resting \cup [pc : {"run"}, todo : Seq(Share), lots : [Share -> Nat], risk : BOOLEAN]
    /\ faults \in 0 .. MaxFaults /\ alerts \in 0 .. MaxAlerts /\ runs \in 0 .. MaxRuns
    /\ owed \in SUBSET Share /\ lost \in SUBSET Share

DeskInit ==
    /\ phase = "shut" /\ swept = FALSE /\ killed = FALSE
    /\ cooling = [shares |-> {}, set |-> 0]
    /\ mark \in [Share -> Price]
    /\ held \in [Share -> {[lots |-> 0, cost |-> 0]} \cup [lots : {MaxLots}, cost : Price]]
    /\ offered = [s \in Share |-> 0] /\ wanted = [s \in Share |-> 0]
    /\ braced = [s \in Share |-> 0]
    /\ guard = Idle /\ peaks = [s \in Share |-> 0]
    /\ pilot = Idle /\ entries = {}
    /\ posted = [t \in Thread |-> Idle]
    /\ session = Idle
    /\ faults = 0 /\ alerts = 0 /\ runs = 0
    /\ owed = {} /\ lost = {}

-----------------------------------------------------------------------------
\* place_signal_order, and what its callers tell apart: refused with
\* PolicyViolation before the broker has anything, taken, or raised. What
\* is raised by the connector is no PolicyViolation.

Gate(s, open) == ~killed /\ s \notin cooling.shares /\ open

\* A fault takes one of the bounded failures; without one the broker answers.
Fault == faults < MaxFaults /\ faults' = faults + 1

SellTaken(s, n) ==
    /\ n <= held[s].lots - offered[s]
    /\ offered' = [offered EXCEPT ![s] = @ + n]
    /\ owed' = owed \ {s}
    /\ UNCHANGED <<broker, lost>>

BuyTaken(s, exits) ==
    /\ held[s].lots + wanted[s] < MaxLots
    /\ wanted' = [wanted EXCEPT ![s] = @ + 1]
    /\ braced' = [braced EXCEPT ![s] = @ + exits]
    /\ UNCHANGED <<mark, held, offered>>

Nothing == UNCHANGED <<broker, offered, ghosts>>

\* The caller that goes on with the next symbol does so after Refused.
Refused(s, open) == ~Gate(s, open) /\ Nothing /\ UNCHANGED faults

Sold(s, n, open) == Gate(s, open) /\ SellTaken(s, n) /\ UNCHANGED faults

\* HTTP 403, no answer, or an answer that was lost.
SaleRaises(s, n, open) ==
    /\ Gate(s, open)
    /\ \/ n > held[s].lots - offered[s] /\ Nothing /\ UNCHANGED faults
       \/ Fault /\ (Nothing \/ SellTaken(s, n))

-----------------------------------------------------------------------------
\* paper_position_guard.py: every quarter of an hour, over one list of
\* positions.

\* evaluate: the stop follows the peak up, and comes before the target.
SignalAboveStop(price, cost, peak) ==   \* bug: a price at the stop holds
    LET top == IF peak > cost THEN peak ELSE cost
    IN  IF price * 100 < top * (100 - StopPct) THEN "STOP"
        ELSE IF price * 100 >= cost * (100 + TargetPct) THEN "TARGET" ELSE "HOLD"

Signal(price, cost, peak) ==
    LET top == IF peak > cost THEN peak ELSE cost
    IN  IF price * 100 <= top * (100 - StopPct) THEN "STOP"
        ELSE IF price * 100 >= cost * (100 + TargetPct) THEN "TARGET" ELSE "HOLD"

Positions ==
    LET Row(s) == [share |-> s, lots |-> held[s].lots, cost |-> held[s].cost, mark |-> mark[s]]
    IN  {Row(s) : s \in {t \in Share : held[t].lots > 0}}

\* The broker lists s before t.
ListedFirst(s, t) == \E i, j \in 1 .. Len(Listing) : Listing[i] = s /\ Listing[j] = t /\ i < j

\* The row the pass comes to next.
IsNext(seen) == seen \in guard.todo /\ \A other \in guard.todo : ~ListedFirst(other.share, seen.share)

StartGuard ==
    /\ guard = Idle
    /\ \/ /\ guard' = [pc |-> "pass", todo |-> Positions, peaks |-> peaks, from |-> phase]
          /\ UNCHANGED <<swept, faults>>
       \/ Fault /\ swept' = TRUE /\ UNCHANGED guard      \* no list, no pass
    /\ UNCHANGED <<phase, killed, cooling, broker, offered, peaks, pilot, entries, posted, session, alerts, runs, ghosts>>

\* The peak of a share that has none is its mark, and only a mark above the
\* peak is put into the table.
Peak(seen) == IF guard.peaks[seen.share] = 0 THEN seen.mark ELSE guard.peaks[seen.share]

Ratcheted(seen) ==
    IF seen.mark > Peak(seen) THEN [guard.peaks EXCEPT ![seen.share] = seen.mark] ELSE guard.peaks

PassEnds == guard' = Idle /\ swept' = (swept \/ guard.from = phase)

GuardTurn ==
    /\ guard.pc = "pass"
    /\ \E seen \in guard.todo :
          LET top == IF seen.mark > Peak(seen) THEN seen.mark ELSE Peak(seen)
              holds == Signal(seen.mark, seen.cost, top) = "HOLD"
              next == [guard EXCEPT !.todo = @ \ {seen}, !.peaks = Ratcheted(seen)]
          IN  /\ IsNext(seen)
              /\ \/ /\ \/ holds /\ Nothing /\ UNCHANGED faults
                       \/ ~holds /\ (Refused(seen.share, SessionOpen) \/ Sold(seen.share, seen.lots, SessionOpen))
                    /\ guard' = next /\ UNCHANGED swept
                 \/ ~holds /\ SaleRaises(seen.share, seen.lots, SessionOpen) /\ PassEnds
    /\ UNCHANGED <<phase, killed, cooling, peaks, pilot, entries, posted, session, alerts, runs>>

\* The file is written only by a pass that came through.
EndGuard ==
    /\ guard.pc = "pass" /\ guard.todo = {}
    /\ peaks' = guard.peaks
    /\ PassEnds
    /\ UNCHANGED <<phase, killed, cooling, broker, offered, pilot, entries, posted, session, faults, alerts, runs, ghosts>>

-----------------------------------------------------------------------------
\* overnight_pilot.py. The schedule starts --enter late in the day and
\* --exit in the morning; a session is over before the phase is.

StartEntry ==
    /\ pilot = Idle /\ EnterOpen
    /\ pilot' = [pc |-> "enter", todo |-> Listing, kept |-> entries]
    /\ runs < MaxRuns /\ runs' = runs + 1
    /\ UNCHANGED <<control, broker, offered, guard, peaks, entries, posted, session, faults, alerts, ghosts>>

\* Not eligible, no uptrend, too small, or refused: the next ticker.
SkipEntry ==
    /\ pilot.pc = "enter" /\ pilot.todo # <<>>
    /\ pilot' = [pilot EXCEPT !.todo = Tail(@)]
    /\ UNCHANGED <<control, broker, offered, guard, peaks, entries, posted, session, faults, alerts, runs, ghosts>>

\* The order is taken; the file does not have it yet.
Enter ==
    /\ pilot.pc = "enter" /\ pilot.todo # <<>>
    /\ Gate(Head(pilot.todo), EnterOpen)
    /\ BuyTaken(Head(pilot.todo), 0)
    /\ owed' = owed \cup {Head(pilot.todo)}
    /\ \/ pilot' = [pilot EXCEPT !.pc = "save"] /\ UNCHANGED <<faults, lost>>
       \/ Fault /\ pilot' = Idle /\ lost' = lost \cup {Head(pilot.todo)}
    /\ UNCHANGED <<control, guard, peaks, entries, posted, session, alerts, runs>>

\* The entry is saved; or the process dies first, or an error after the order,
\* in place_signal_order or update_candidate_status, is caught, which leaves
\* the entry unsaved and goes on to the next ticker.
SaveEntry ==
    /\ pilot.pc = "save"
    /\ \/ /\ entries' = pilot.kept \cup {Head(pilot.todo)}
          /\ pilot' = [pc |-> "enter", todo |-> Tail(pilot.todo), kept |-> entries']
          /\ UNCHANGED <<faults, lost>>
       \/ /\ Fault /\ lost' = lost \cup {Head(pilot.todo)} /\ UNCHANGED entries
          /\ pilot' \in {Idle, [pc |-> "enter", todo |-> Tail(pilot.todo), kept |-> pilot.kept]}
    /\ UNCHANGED <<control, broker, offered, guard, peaks, posted, session, alerts, runs, owed>>

StartExit ==
    /\ pilot = Idle /\ ExitOpen
    /\ \E todo \in {q \in [1 .. Cardinality(entries) -> entries] : \A i, j \in DOMAIN q : q[i] = q[j] => i = j} :
          pilot' = [pc |-> "exit", todo |-> todo, kept |-> {}]
    /\ UNCHANGED <<control, broker, offered, guard, peaks, entries, posted, session, faults, alerts, runs, ghosts>>

DropRefused(s) == pilot.kept            \* bug: a refused exit is not kept

\* The entry of an exit that was refused stays.
KeepRefused(s) == pilot.kept \cup {s}

Exit ==
    /\ pilot.pc = "exit" /\ pilot.todo # <<>>
    /\ LET s == Head(pilot.todo)
           n == held[s].lots
           goOn(kept) == pilot' = [pilot EXCEPT !.todo = Tail(@), !.kept = kept]
       IN  \/ n = 0 /\ goOn(pilot.kept) /\ Nothing /\ UNCHANGED faults
           \/ n > 0 /\ Refused(s, ExitOpen) /\ goOn(KeepRefused(s))
           \/ n > 0 /\ Sold(s, n, ExitOpen) /\ goOn(pilot.kept)
           \/ n > 0 /\ SaleRaises(s, n, ExitOpen) /\ pilot' = Idle
    /\ UNCHANGED <<control, guard, peaks, entries, posted, session, alerts, runs>>

EndPilot ==
    /\ pilot.pc \in {"enter", "exit"} /\ pilot.todo = <<>>
    /\ entries' = IF pilot.pc = "exit" THEN pilot.kept ELSE entries
    /\ pilot' = Idle
    /\ UNCHANGED <<control, broker, offered, guard, peaks, posted, session, faults, alerts, runs, ghosts>>

-----------------------------------------------------------------------------
\* alert_webhook.py: a thread looks at the account, then places. Every error
\* is answered with 422 and forgotten.

PostAlert(t) ==
    /\ posted[t] = Idle /\ alerts < MaxAlerts
    /\ \E s \in Share, side \in {"buy", "sell"} : \E n \in 1 .. MaxLots :
          /\ side = "sell" => held[s].lots >= n
          /\ side = "buy" => n = 1
          /\ posted' = [posted EXCEPT ![t] = [pc |-> "place", side |-> side, share |-> s, lots |-> n]]
    /\ alerts' = alerts + 1
    /\ UNCHANGED <<control, broker, offered, guard, peaks, pilot, entries, session, faults, runs, ghosts>>

PlaceAlert(t) ==
    /\ posted[t].pc = "place"
    /\ LET a == posted[t]
       IN  \/ Refused(a.share, SessionOpen)
           \/ a.side = "sell" /\ (Sold(a.share, a.lots, SessionOpen) \/ SaleRaises(a.share, a.lots, SessionOpen))
           \/ a.side = "buy" /\ Nothing /\ UNCHANGED faults   \* not eligible, earnings, or no buying power left
           \/ a.side = "buy" /\ Gate(a.share, SessionOpen) /\ BuyTaken(a.share, 0) /\ UNCHANGED <<faults, ghosts>>
    /\ posted' = [posted EXCEPT ![t] = Idle]
    /\ UNCHANGED <<control, guard, peaks, pilot, entries, session, alerts, runs>>

-----------------------------------------------------------------------------
\* tradingagents_paper_auto.py: positions and regime are read once, before
\* the first ticker is researched; a purchase brings a stop and a target of
\* its own; no error of a ticker stops the next.

StartSession ==
    /\ session = Idle /\ SessionOpen
    /\ \E risk \in BOOLEAN :
          session' = [pc |-> "run", todo |-> Listing, lots |-> [s \in Share |-> held[s].lots], risk |-> risk]
    /\ runs < MaxRuns /\ runs' = runs + 1
    /\ UNCHANGED <<control, broker, offered, guard, peaks, pilot, entries, posted, faults, alerts, ghosts>>

Ticker ==
    /\ session.pc = "run" /\ session.todo # <<>>
    /\ LET s == Head(session.todo)
           n == session.lots[s]
       IN  \/ Nothing /\ UNCHANGED faults                  \* not eligible, no signal, or the desk disagrees
           \/ session.risk /\ Gate(s, SessionOpen) /\ BuyTaken(s, 1) /\ UNCHANGED <<faults, ghosts>>
           \/ n > 0 /\ (Refused(s, SessionOpen) \/ Sold(s, n, SessionOpen) \/ SaleRaises(s, n, SessionOpen))
    /\ session' = [session EXCEPT !.todo = Tail(@)]
    /\ UNCHANGED <<control, guard, peaks, pilot, entries, posted, alerts, runs>>

EndSession ==
    /\ session.pc = "run" /\ session.todo = <<>>
    /\ session' = Idle
    /\ UNCHANGED <<control, broker, offered, guard, peaks, pilot, entries, posted, faults, alerts, runs, ghosts>>

-----------------------------------------------------------------------------
\* The broker, the day and the operator.

FillSale(s) ==
    /\ offered[s] > 0
    /\ offered' = [offered EXCEPT ![s] = 0]
    /\ held' = [held EXCEPT ![s].lots = @ - offered[s]]
    /\ owed' = IF held'[s].lots = 0 /\ wanted[s] = 0 THEN owed \ {s} ELSE owed
    /\ UNCHANGED <<control, mark, wanted, braced, guard, peaks, pilot, entries, posted, session, faults, alerts, runs, lost>>

\* The average price of the position, rounded down to a tick. The exits of a
\* bracket set its shares aside until the day ends.
FillPurchase(s) ==
    /\ wanted[s] > 0
    /\ wanted' = [wanted EXCEPT ![s] = 0] /\ braced' = [braced EXCEPT ![s] = 0]
    /\ offered' = [offered EXCEPT ![s] = @ + braced[s]]
    /\ held' = [held EXCEPT ![s] = [lots |-> @.lots + wanted[s],
                   cost |-> (@.lots * @.cost + wanted[s] * mark[s]) \div (@.lots + wanted[s])]]
    /\ UNCHANGED <<control, mark, guard, peaks, pilot, entries, posted, session, faults, alerts, runs, ghosts>>

MarkMoves(s) ==
    /\ \E p \in Price \ {mark[s]} : mark' = [mark EXCEPT ![s] = p]
    /\ UNCHANGED <<control, held, offered, wanted, braced, guard, peaks, pilot, entries, posted, session, faults, alerts, runs, ghosts>>

\* The guard's timer is shorter than any phase the market is open in.
NextPhase ==
    /\ pilot = Idle
    /\ SessionOpen => swept
    /\ phase' = CASE phase = "shut" -> "morning" [] phase = "morning" -> "day"
                  [] phase = "day" -> "late" [] phase = "late" -> "shut"
    /\ swept' = FALSE
    /\ IF phase = "late"
       THEN /\ offered' = [s \in Share |-> 0] /\ wanted' = [s \in Share |-> 0]
            /\ braced' = [s \in Share |-> 0]
            /\ owed' = {s \in owed : held[s].lots > 0}
       ELSE UNCHANGED <<offered, wanted, braced, owed>>
    /\ UNCHANGED <<killed, cooling, mark, held, guard, peaks, pilot, entries, posted, session, faults, alerts, runs, lost>>

CoolDown(s) ==
    /\ s \notin cooling.shares /\ cooling.set < MaxCooling
    /\ cooling' = [shares |-> cooling.shares \cup {s}, set |-> cooling.set + 1]
    /\ UNCHANGED <<phase, swept, killed, broker, offered, guard, peaks, pilot, entries, posted, session, faults, alerts, runs, ghosts>>

\* The day after expires_on.
CooldownEnds(s) ==
    /\ s \in cooling.shares
    /\ cooling' = [cooling EXCEPT !.shares = @ \ {s}]
    /\ UNCHANGED <<phase, swept, killed, broker, offered, guard, peaks, pilot, entries, posted, session, faults, alerts, runs, ghosts>>

Kill ==
    /\ killed' = ~killed
    /\ UNCHANGED <<phase, swept, cooling, broker, offered, guard, peaks, pilot, entries, posted, session, faults, alerts, runs, ghosts>>

GuardNext == StartGuard \/ GuardTurn \/ EndGuard
PilotNext == StartEntry \/ SkipEntry \/ Enter \/ SaveEntry \/ StartExit \/ Exit \/ EndPilot
SessionNext == StartSession \/ Ticker \/ EndSession
BrokerNext == \E s \in Share : FillSale(s) \/ FillPurchase(s)

DeskNext ==
    \/ GuardNext \/ PilotNext \/ SessionNext \/ BrokerNext \/ NextPhase \/ Kill
    \/ \E t \in Thread : PostAlert(t) \/ PlaceAlert(t)
    \/ \E s \in Share : MarkMoves(s) \/ CoolDown(s) \/ CooldownEnds(s)

\* The timer fires, a session that was started goes on, and the clock and
\* the calendar wait for no session.
DeskSpec ==
    /\ DeskInit /\ [][DeskNext]_deskVars
    /\ WF_deskVars(GuardNext) /\ WF_deskVars(PilotNext) /\ SF_deskVars(NextPhase)
    /\ \A s \in Share : WF_deskVars(CooldownEnds(s))

-----------------------------------------------------------------------------
\* Properties.

\* What the pilot bought and nobody has offered for sale since is on its
\* file, so the exit session will look at it: an entry leaves the file only
\* when its position is flat or its sale was taken. The one exception is a
\* session that dies, or takes a caught error, between the order and the file.
EntriesAreOnFile ==
    \A s \in owed : s \in entries \cup lost \/ (pilot.pc = "save" /\ Head(pilot.todo) = s)

AtStop(s) == held[s].lots > 0 /\ mark[s] * 100 <= held[s].cost * (100 - StopPct)

\* A position at its fixed stop is offered for sale, is sold, recovers or
\* falls under the emergency stop, even though a pass dies at the first
\* share whose lots rest in another sale: the orders of a day end with it,
\* and the next day's first pass gets through.
StopsAreOffered ==
    \A s \in Share : AtStop(s) ~> (~AtStop(s) \/ offered[s] > 0 \/ killed)
=============================================================================
