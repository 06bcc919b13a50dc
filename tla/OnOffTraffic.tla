----------------------------- MODULE OnOffTraffic -----------------------------
(***************************************************************************)
(* The on/off application that loads the network: while on it sends a      *)
(* packet each time a packet's worth of its data rate has passed, and what *)
(* has passed of one when it goes off counts when it goes on again.        *)
(*                                                                         *)
(* Time is counted in ticks, the resolution of ns3::Time; a bit takes       *)
(* BitTicks of them at the data rate.  The code goes from one to the other  *)
(* in fractions and drops what is left: of the time that passed it keeps    *)
(* whole bits, of the time to wait whole ticks.                             *)
(***************************************************************************)
EXTENDS Integers

CONSTANTS
  PktBits,        \* PacketSize in bits
  BitTicks,       \* ticks a bit takes at DataRate
  OnTimes,        \* values of OnTime
  OffTimes,       \* values of OffTime
  MaxPackets,     \* MaxBytes in packets, 0 for no limit
  MaxTime         \* bound

VARIABLES
  running,        \* between StartApplication and StopApplication
  sendAt,         \* m_sendEvent: its time, or Never
  startStop,      \* m_startStopEvent: what it runs and when
  lastStartTime,
  residualBits,
  dataID,         \* number of packets sent, also m_totBytes in packets
  now,
  onTime,         \* history: time spent on before lastOn
  lastOn,         \* history: when it went on, Never while it is off
  cuts            \* history: how often it was cut short with a packet on its way

vars ==
  <<running, sendAt, startStop, lastStartTime, residualBits, dataID, now, onTime, lastOn, cuts>>

\* The time a packet takes.
PktTicks == PktBits * BitTicks

Never == -1
NoEvent == [run |-> "none", at |-> Never]

OnOffAssumption ==
  /\ PktBits \in Nat \ {0, 1}      \* m_pktSize * 8
  /\ BitTicks \in Nat \ {0}
  /\ OnTimes \subseteq Nat \ {0}
  /\ OffTimes \subseteq Nat
  /\ MaxPackets \in Nat /\ MaxTime \in Nat

Init ==
  /\ running = FALSE
  /\ sendAt = Never
  /\ startStop = NoEvent
  /\ lastStartTime = 0
  /\ residualBits = 0
  /\ dataID = 0
  /\ now = 0
  /\ onTime = 0
  /\ lastOn = Never
  /\ cuts = 0

-------------------------------------------------------------------------------
\* ScheduleStartEvent, ScheduleStopEvent
ScheduleStartEvent == \E off \in OffTimes : startStop' = [run |-> "StartSending", at |-> now + off]
ScheduleStopEvent  == \E on \in OnTimes : startStop' = [run |-> "StopSending", at |-> now + on]

\* bits.GetHigh(): of a product of fractions that were rounded down, the whole part.
WholeBits(time) == {k \in 0..time : k * BitTicks <= time /\ time <= (k + 1) * BitTicks}

\* Mutant: the bits left from before are forgotten.
CancelEventsAnew ==
  /\ sendAt' = Never
  /\ IF sendAt = Never THEN UNCHANGED <<residualBits, cuts>>
     ELSE /\ residualBits' \in WholeBits(now - lastStartTime)
          /\ cuts' = cuts + 1

\* CancelEvents: of a packet on its way the whole bits that have passed are kept.
CancelEvents ==
  /\ sendAt' = Never
  /\ IF sendAt = Never THEN UNCHANGED <<residualBits, cuts>>
     ELSE /\ \E k \in WholeBits(now - lastStartTime) : residualBits' = residualBits + k
          /\ cuts' = cuts + 1

LimitReached(sent) == MaxPackets # 0 /\ sent >= MaxPackets

TurnedOff ==
  /\ onTime' = IF lastOn = Never THEN onTime ELSE onTime + now - lastOn
  /\ lastOn' = Never

\* StopApplication, also called when the last packet is sent.
StopApplication ==
  /\ running' = FALSE
  /\ CancelEvents
  /\ startStop' = NoEvent
  /\ TurnedOff

\* ScheduleNextTx, with this many bits of the next packet passed: Seconds(bits / rate)
\* may come out just short of a whole number of ticks and loses one then.
ScheduleNextTx(bits) ==
  LET wait == (PktBits - bits) * BitTicks
  IN  \E early \in {0, 1} : early <= wait /\ sendAt' = now + wait - early

StartApplication ==
  /\ ~ running
  /\ now = 0
  /\ running' = TRUE
  /\ ScheduleStartEvent
  /\ UNCHANGED <<sendAt, lastStartTime, residualBits, dataID, now, onTime, lastOn, cuts>>

StartSending ==
  /\ startStop = [run |-> "StartSending", at |-> now]
  /\ lastStartTime' = now
  /\ ScheduleNextTx(residualBits)
  /\ ScheduleStopEvent
  /\ lastOn' = now
  /\ UNCHANGED <<running, residualBits, dataID, now, onTime, cuts>>

StopSending ==
  /\ startStop = [run |-> "StopSending", at |-> now]
  /\ CancelEvents
  /\ ScheduleStartEvent
  /\ TurnedOff
  /\ UNCHANGED <<running, lastStartTime, dataID, now>>

SendPacket ==
  /\ sendAt = now
  /\ dataID' = dataID + 1
  /\ lastStartTime' = now
  /\ residualBits' = 0
  /\ UNCHANGED <<now, cuts>>
  /\ IF LimitReached(dataID + 1)
     THEN /\ running' = FALSE
          /\ sendAt' = Never
          /\ startStop' = NoEvent
          /\ TurnedOff
     ELSE /\ ScheduleNextTx(0)
          /\ UNCHANGED <<running, startStop, onTime, lastOn>>

\* The scenario stops the application, some time after it started it.
Stop ==
  /\ running
  /\ now > 0
  /\ StopApplication
  /\ UNCHANGED <<lastStartTime, dataID, now>>

Tick ==
  /\ now < MaxTime
  /\ sendAt # now
  /\ startStop.at # now
  /\ now' = now + 1
  /\ UNCHANGED <<running, sendAt, startStop, lastStartTime, residualBits, dataID, onTime, lastOn,
                 cuts>>

Next == StartApplication \/ StartSending \/ StopSending \/ SendPacket \/ Stop \/ Tick

Spec == Init /\ [][Next]_vars

-------------------------------------------------------------------------------
TypeOK ==
  /\ running \in BOOLEAN
  /\ sendAt = Never \/ sendAt >= now
  /\ residualBits \in 0..PktBits
  /\ (lastOn # Never) = (startStop.run = "StopSending")

TimeOn == IF lastOn = Never THEN onTime ELSE onTime + now - lastOn

(***************************************************************************)
(* However short the times it is on, and when they end with a packet due,  *)
(* the application keeps its data rate over the time it was on, up to what *)
(* the conversions drop: a packet leaves at most one tick early, and of    *)
(* what was due at most one bit is lost each time it is cut short.  What   *)
(* passed before a cut is never counted twice nor forgotten.               *)
(***************************************************************************)
RateKept ==
  /\ dataID * PktTicks <= TimeOn + dataID
  /\ MaxPackets # 0 => dataID <= MaxPackets
  /\ ~ LimitReached(dataID) => TimeOn <= (dataID + 1) * PktTicks + cuts * BitTicks
===============================================================================
