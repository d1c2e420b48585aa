------------------------- MODULE Line6TimelineProofs -------------------------
(***************************************************************************)
(* The device timeline for any clock rate, period, buffer and number of    *)
(* IO threads, with no bound on their pauses: it is never ahead of the     *)
(* clock, stays on the line through the anchor, does not go back and keeps *)
(* pace.  The last needs that truncated products of frames only lose when  *)
(* they are added up (TicksAdd).                                           *)
(***************************************************************************)
EXTENDS Line6Timeline, FiniteSetTheorems, TLAPS

Running == {c \in Clients : client[c].pc # "off"}

(* A stamp names the start of its period, and lies in the past of the      *)
(* current one.                                                            *)
StampInv ==
  /\ stamp.host = stamp.anchor + Ticks(stamp.sample)
  /\ stamp.host <= PeriodStart(gNumberTimeStamps)
  /\ PeriodStart(gNumberTimeStamps) <= now

RunningInv == gIORunning = Cardinality(Running)

TimelineInv == TypeOK /\ StampInv /\ RunningInv /\ KeepsPace

-----------------------------------------------------------------------------
LEMMA Constants ==
  /\ TicksNum \in Nat /\ TicksNum > 0 /\ TicksDen \in Nat /\ TicksDen > 0
  /\ RingPeriod \in Nat /\ RingPeriod > 0 /\ Buffer \in Nat /\ Buffer <= RingPeriod
  BY TimelineAssumption

(* Truncated division.                                                     *)
LEMMA Division ==
  ASSUME NEW a \in Nat, NEW d \in Nat, d > 0
  PROVE  a \div d \in Nat /\ (a \div d) * d <= a /\ a < (a \div d + 1) * d
<1>1. a \div d \in Nat
  OBVIOUS
<1>2. (a \div d) * d <= a
  OBVIOUS
<1>3. a < (a \div d + 1) * d
  OBVIOUS
<1>4. QED
  BY <1>1, <1>2, <1>3

LEMMA DivisionAdds ==
  ASSUME NEW a \in Nat, NEW b \in Nat, NEW d \in Nat, d > 0
  PROVE  a \div d + b \div d <= (a + b) \div d
  OBVIOUS

LEMMA TicksType ==
  /\ \A f \in Nat : Ticks(f) \in Nat /\ f * TicksNum \in Nat
  /\ Ticks(0) = 0
  BY Constants, Division DEF Ticks

LEMMA TicksAdd ==
  ASSUME NEW f \in Nat, NEW g \in Nat
  PROVE  Ticks(f) + Ticks(g) <= Ticks(f + g)
<1>1. (f + g) * TicksNum = f * TicksNum + g * TicksNum
  BY Constants
<1>2. QED
  BY <1>1, Constants, TicksType, DivisionAdds DEF Ticks

LEMMA TicksMonotone ==
  ASSUME NEW f \in Nat, NEW g \in Nat, f <= g
  PROVE  Ticks(f) <= Ticks(g)
<1>1. g - f \in Nat /\ f + (g - f) = g
  OBVIOUS
<1>2. Ticks(f) + Ticks(g - f) <= Ticks(g)
  BY <1>1, TicksAdd
<1>3. QED
  BY <1>1, <1>2, TicksType

(* The start of the next period is at least a buffer later.                *)
LEMMA Periods ==
  ASSUME TypeOK, NEW n \in Nat
  PROVE  /\ PeriodStart(n) \in Nat
         /\ PeriodStart(0) = gAnchorHostTime
         /\ PeriodStart(n) + TickPerBuf <= PeriodStart(n + 1)
         /\ TickPerBuf \in Nat
<1>1. n * RingPeriod \in Nat /\ (n + 1) * RingPeriod = n * RingPeriod + RingPeriod
      /\ 0 * RingPeriod = 0
  BY Constants
<1>2. Ticks(n * RingPeriod) + Ticks(RingPeriod) <= Ticks((n + 1) * RingPeriod)
  BY <1>1, TicksAdd, Constants
<1>3. Ticks(Buffer) <= Ticks(RingPeriod)
  BY Constants, TicksMonotone
<1>4. /\ Ticks(n * RingPeriod) \in Nat /\ Ticks((n + 1) * RingPeriod) \in Nat
      /\ Ticks(RingPeriod) \in Nat /\ Ticks(Buffer) \in Nat
  BY <1>1, Constants, TicksType
<1>5. gAnchorHostTime \in Nat
  BY DEF TypeOK
<1>6. PeriodStart(0) = gAnchorHostTime
  BY <1>1, <1>5, TicksType DEF PeriodStart
<1>7. QED
  BY <1>2, <1>3, <1>4, <1>5, <1>6 DEF PeriodStart, TickPerBuf

LEMMA PeriodsMonotone ==
  ASSUME TypeOK, NEW n \in Nat, NEW m \in Nat, n <= m
  PROVE  PeriodStart(n) <= PeriodStart(m)
<1>1. n * RingPeriod \in Nat /\ m * RingPeriod \in Nat /\ n * RingPeriod <= m * RingPeriod
  BY Constants
<1>2. Ticks(n * RingPeriod) <= Ticks(m * RingPeriod)
  BY <1>1, TicksMonotone
<1>3. QED
  BY <1>1, <1>2, TicksType DEF PeriodStart, TypeOK

LEMMA RunningFinite ==
  IsFiniteSet(Running) /\ Cardinality(Running) \in Nat /\ (Cardinality(Running) = 0 <=> Running = {})
<1>1. IsFiniteSet(Running)
  BY TimelineAssumption, FS_Subset DEF Running
<1>2. QED
  BY <1>1, FS_CardinalityType, FS_EmptySet

-----------------------------------------------------------------------------
LEMMA TimelineInit == Init => TimelineInv
<1> SUFFICES ASSUME Init PROVE TimelineInv
  OBVIOUS
<1>1. TypeOK
  BY DEF Init, TypeOK, Off
<1>2. StampInv
  <2>1. PeriodStart(0) = 0
    BY <1>1, Periods DEF Init
  <2>2. QED
    BY <2>1, TicksType DEF Init, StampInv
<1>3. RunningInv /\ KeepsPace
  <2>1. \A c \in Clients : client[c].pc = "off"
    BY DEF Init, Off
  <2>2. Running = {}
    BY <2>1 DEF Running
  <2>3. QED
    BY <2>1, <2>2, FS_EmptySet DEF Init, RunningInv, KeepsPace
<1>4. QED
  BY <1>1, <1>2, <1>3 DEF TimelineInv

LEMMA ClockStep == TimelineInv /\ ClockAdvances => TimelineInv'
<1> SUFFICES ASSUME TimelineInv, ClockAdvances PROVE TimelineInv'
  OBVIOUS
<1>1. now' \in Nat /\ now <= now'
  BY TimelineAssumption DEF ClockAdvances, TimelineInv, TypeOK
<1>2. UNCHANGED <<gIORunning, gAnchorHostTime, gNumberTimeStamps, client, stamp>>
  BY DEF ClockAdvances, pluginVars
<1>3. TypeOK'
  BY <1>1, <1>2 DEF TimelineInv, TypeOK
<1>4. StampInv'
  <2>1. PeriodStart(gNumberTimeStamps) \in Nat /\ now \in Nat
    BY Periods DEF TimelineInv, TypeOK
  <2>2. QED
    BY <1>1, <1>2, <2>1 DEF TimelineInv, StampInv, PeriodStart
<1>5. RunningInv' /\ KeepsPace'
  BY <1>2 DEF TimelineInv, RunningInv, Running, KeepsPace, PeriodStart
<1>6. QED
  BY <1>3, <1>4, <1>5 DEF TimelineInv

(* The first client of a session finds no schedule: no thread runs.        *)
LEMMA StartStep ==
  ASSUME TimelineInv, NEW c \in Clients, StartIO(c)
  PROVE  TimelineInv'
<1>0. TypeOK /\ client \in [Clients -> [pc : {"off", "started", "paced"}, start : Nat, next : Nat]]
  BY DEF TimelineInv, TypeOK
<1>1. /\ client[c].pc = "off" /\ UNCHANGED <<now, stamp>>
      /\ gIORunning' = gIORunning + 1
      /\ client' = [client EXCEPT ![c] = [pc |-> "started", start |-> 0, next |-> 0]]
  <2>1. [Off EXCEPT !.pc = "started"] = [pc |-> "started", start |-> 0, next |-> 0]
    BY DEF Off
  <2>2. QED
    BY <2>1 DEF StartIO
<1>2. TypeOK'
  <2>1. gAnchorHostTime' \in Nat /\ gNumberTimeStamps' \in Nat /\ gIORunning' \in Nat
    BY <1>0 DEF StartIO, TypeOK
  <2>2. client' \in [Clients -> [pc : {"off", "started", "paced"}, start : Nat, next : Nat]]
    BY <1>0, <1>1
  <2>3. QED
    BY <1>0, <1>1, <2>1, <2>2 DEF TypeOK
<1>3. /\ client'[c].pc = "started"
      /\ \A d \in Clients : d # c => client'[d] = client[d]
  BY <1>0, <1>1
<1>4. RunningInv'
  <2>1. Running' = Running \cup {c} /\ c \notin Running
    BY <1>1, <1>3 DEF Running
  <2>2. Cardinality(Running \cup {c}) = Cardinality(Running) + 1
    BY <2>1, RunningFinite, FS_AddElement
  <2>3. QED
    BY <1>1, <2>1, <2>2 DEF TimelineInv, RunningInv
<1>5. CASE gIORunning = 0
  <2>1. gAnchorHostTime' = now /\ gNumberTimeStamps' = 0
    BY <1>5 DEF StartIO
  <2>2. \A d \in Clients : client'[d].pc # "paced"
    <3>1. Running = {}
      BY <1>5, RunningFinite DEF TimelineInv, RunningInv
    <3>2. QED
      BY <1>3, <3>1 DEF Running
  <2>3. KeepsPace'
    BY <2>2 DEF KeepsPace
  <2>4. PeriodStart(0)' = now
    BY <1>1, <2>1, TicksType, Constants DEF PeriodStart, TimelineInv, TypeOK
  <2>5. stamp.host <= now /\ now <= now
    BY Periods DEF TimelineInv, StampInv, TypeOK
  <2>6. StampInv'
    BY <1>1, <2>1, <2>4, <2>5 DEF StampInv, TimelineInv
  <2>7. QED
    BY <1>2, <1>4, <2>3, <2>6 DEF TimelineInv
<1>6. CASE gIORunning # 0
  <2>1. UNCHANGED <<gAnchorHostTime, gNumberTimeStamps>>
    BY <1>6 DEF StartIO
  <2>2. StampInv'
    BY <1>1, <2>1 DEF TimelineInv, StampInv, PeriodStart
  <2>3. KeepsPace'
    BY <1>3, <2>1 DEF TimelineInv, KeepsPace, PeriodStart
  <2>4. QED
    BY <1>2, <1>4, <2>2, <2>3 DEF TimelineInv
<1>7. QED
  BY <1>5, <1>6

LEMMA ScheduleStep ==
  ASSUME TimelineInv, NEW c \in Clients, Schedule(c)
  PROVE  TimelineInv'
<1>0. /\ TypeOK /\ now \in Nat /\ gNumberTimeStamps \in Nat /\ TickPerBuf \in Nat
      /\ client \in [Clients -> [pc : {"off", "started", "paced"}, start : Nat, next : Nat]]
  BY Periods DEF TimelineInv, TypeOK
<1>1. /\ client[c].pc = "started"
      /\ UNCHANGED <<now, gIORunning, gAnchorHostTime, gNumberTimeStamps, stamp>>
      /\ client' = [client EXCEPT ![c] = [pc |-> "paced", start |-> now, next |-> now + TickPerBuf]]
  BY DEF Schedule, pluginVars
<1>2. TypeOK'
  BY <1>0, <1>1 DEF TypeOK
<1>3. StampInv'
  BY <1>1 DEF TimelineInv, StampInv, PeriodStart
<1>4. /\ client'[c] = [pc |-> "paced", start |-> now, next |-> now + TickPerBuf]
      /\ \A d \in Clients : d # c => client'[d] = client[d]
  BY <1>0, <1>1
<1>5. RunningInv'
  <2>1. Running' = Running
    BY <1>1, <1>4 DEF Running
  <2>2. QED
    BY <1>1, <2>1 DEF TimelineInv, RunningInv
<1>6. KeepsPace'
  <2>1. now < PeriodStart(1) => now + TickPerBuf - TickPerBuf < PeriodStart(gNumberTimeStamps + 1)
    <3>1. PeriodStart(1) <= PeriodStart(gNumberTimeStamps + 1)
      BY <1>0, PeriodsMonotone
    <3>2. PeriodStart(1) \in Nat /\ PeriodStart(gNumberTimeStamps + 1) \in Nat
      BY <1>0, Periods
    <3>3. QED
      BY <1>0, <3>1, <3>2
  <2>2. \A d \in Clients :
          client'[d].pc = "paced" /\ client'[d].start < PeriodStart(1) =>
            client'[d].next - TickPerBuf < PeriodStart(gNumberTimeStamps + 1)
    <3>1. client'[c].start = now /\ client'[c].next = now + TickPerBuf
      BY <1>4
    <3>2. \A d \in Clients : d # c =>
            (client'[d].pc = "paced" /\ client'[d].start < PeriodStart(1) =>
               client'[d].next - TickPerBuf < PeriodStart(gNumberTimeStamps + 1))
      BY <1>4 DEF TimelineInv, KeepsPace
    <3>3. client'[c].start < PeriodStart(1) =>
            client'[c].next - TickPerBuf < PeriodStart(gNumberTimeStamps + 1)
      BY <1>0, <2>1, <3>1
    <3>4. QED
      BY <3>2, <3>3
  <2>3. QED
    BY <1>1, <2>2 DEF KeepsPace, PeriodStart, TickPerBuf
<1>7. QED
  BY <1>2, <1>3, <1>5, <1>6 DEF TimelineInv

(* The count moves by at most one period, and a call is at most a buffer   *)
(* after the one before.                                                   *)
LEMMA StampStep ==
  ASSUME TimelineInv, NEW c \in Clients, GetZeroTimeStamp(c)
  PROVE  TimelineInv' /\ stamp.host <= stamp'.host
<1> DEFINE n == gNumberTimeStamps
<1>0. /\ TypeOK /\ now \in Nat /\ n \in Nat /\ TickPerBuf \in Nat
      /\ client \in [Clients -> [pc : {"off", "started", "paced"}, start : Nat, next : Nat]]
  BY Periods DEF TimelineInv, TypeOK
<1>1. /\ client[c].pc = "paced" /\ client[c].next <= now
      /\ UNCHANGED <<now, gIORunning, gAnchorHostTime>> /\ n' = StampsNow
      /\ stamp' = [sample |-> StampsNow * RingPeriod, host |-> PeriodStart(StampsNow),
                   anchor |-> gAnchorHostTime]
  BY <1>0 DEF GetZeroTimeStamp
<1>2. /\ client'[c].pc = "paced" /\ client'[c].start = client[c].start
      /\ client'[c].next = client[c].next + TickPerBuf
      /\ client' \in [Clients -> [pc : {"off", "started", "paced"}, start : Nat, next : Nat]]
      /\ \A d \in Clients : d # c => client'[d] = client[d]
  BY <1>0 DEF GetZeroTimeStamp
<1>3. /\ n' \in {n, n + 1} /\ n' \in Nat
      /\ n' = n + 1 => PeriodStart(n + 1) <= now
      /\ n' = n => now < PeriodStart(n + 1)
  BY <1>0, <1>1, Periods DEF StampsNow
<1>4. /\ PeriodStart(n) \in Nat /\ PeriodStart(n + 1) \in Nat /\ PeriodStart(n + 2) \in Nat
      /\ PeriodStart(n + 1) + TickPerBuf <= PeriodStart(n + 2)
      /\ PeriodStart(n) <= PeriodStart(n + 1)
  <2>1. n + 1 \in Nat /\ n + 1 + 1 = n + 2 /\ n + 2 \in Nat /\ n <= n + 1
    BY <1>0
  <2>2. PeriodStart(n) \in Nat /\ PeriodStart(n + 1) \in Nat /\ PeriodStart(n + 2) \in Nat
    BY <1>0, <2>1, Periods
  <2>3. PeriodStart(n + 1) + TickPerBuf <= PeriodStart(n + 1 + 1)
    BY <1>0, <2>1, Periods
  <2>4. PeriodStart(n) <= PeriodStart(n + 1)
    BY <1>0, <2>1, PeriodsMonotone
  <2>5. QED
    BY <2>1, <2>2, <2>3, <2>4
<1>5. TypeOK'
  <2>0. n' * RingPeriod \in Nat
    <3>1. \A k \in Nat : k * RingPeriod \in Nat
      BY Constants
    <3>2. QED
      BY <1>3, <3>1
  <2>1. PeriodStart(n') \in Nat
    BY <1>3, <1>4
  <2>2. QED
    BY <1>0, <1>1, <1>2, <1>3, <2>0, <2>1 DEF TypeOK
<1>6. StampInv' /\ stamp.host <= stamp'.host
  <2>1. PeriodStart(n') <= now /\ stamp.host <= PeriodStart(n')
    BY <1>0, <1>3, <1>4 DEF TimelineInv, StampInv, TypeOK
  <2>2. stamp'.host = PeriodStart(n') /\ stamp'.anchor = gAnchorHostTime
        /\ stamp'.sample = n' * RingPeriod
    BY <1>1
  <2>3. PeriodStart(n') = gAnchorHostTime' + Ticks(n' * RingPeriod)
    BY <1>1 DEF PeriodStart
  <2>4. PeriodStart(n') <= PeriodStart(n')
    BY <1>3, <1>4
  <2>5. QED
    BY <1>1, <2>1, <2>2, <2>3, <2>4 DEF StampInv, PeriodStart, Ticks
<1>7. RunningInv'
  <2>1. Running' = Running
    BY <1>1, <1>2 DEF Running
  <2>2. QED
    BY <1>1, <2>1 DEF TimelineInv, RunningInv
<1>8. KeepsPace'
  <2>1. \A d \in Clients : client[d].pc = "paced" /\ client[d].start < PeriodStart(1) =>
                             client[d].next - TickPerBuf < PeriodStart(n + 1)
    BY DEF TimelineInv, KeepsPace
  <2>2. PeriodStart(n + 1) <= PeriodStart(n' + 1)
    BY <1>0, <1>3, <1>4
  <2>3. \A d \in Clients : client[d].next \in Nat
    BY <1>0
  <2>4. ASSUME client[c].start < PeriodStart(1)
        PROVE  client[c].next < PeriodStart(n' + 1)
    <3>1. CASE n' = n
      BY <1>0, <1>1, <1>3, <1>4, <2>3, <3>1
    <3>2. CASE n' = n + 1
      <4>1. client[c].next - TickPerBuf < PeriodStart(n + 1)
        BY <1>1, <2>1, <2>4
      <4>2. n' + 1 = n + 2
        BY <1>0, <3>2
      <4>3. QED
        BY <1>0, <1>4, <2>3, <4>1, <4>2
    <3>3. QED
      BY <1>3, <3>1, <3>2
  <2>5. \A d \in Clients : client'[d].pc = "paced" /\ client'[d].start < PeriodStart(1) =>
                             client'[d].next - TickPerBuf < PeriodStart(n' + 1)
    <3>1. ASSUME NEW d \in Clients, d # c, client[d].pc = "paced", client[d].start < PeriodStart(1)
          PROVE  client[d].next - TickPerBuf < PeriodStart(n' + 1)
      <4>1. client[d].next - TickPerBuf < PeriodStart(n + 1)
        BY <2>1, <3>1
      <4>2. PeriodStart(n' + 1) \in Nat /\ client[d].next - TickPerBuf \in Int
        BY <1>0, <1>3, <2>3, Periods
      <4>3. QED
        BY <1>4, <2>2, <4>1, <4>2
    <3>2. client[c].next + TickPerBuf - TickPerBuf = client[c].next
      BY <1>0, <2>3
    <3>3. client[c].start < PeriodStart(1) =>
            client[c].next + TickPerBuf - TickPerBuf < PeriodStart(n' + 1)
      BY <2>4, <3>2
    <3>4. client'[c].start < PeriodStart(1) =>
            client'[c].next - TickPerBuf < PeriodStart(n' + 1)
      BY <1>0, <1>2, <2>3, <3>3
    <3>5. \A d \in Clients : d # c =>
            (client'[d].pc = "paced" /\ client'[d].start < PeriodStart(1) =>
               client'[d].next - TickPerBuf < PeriodStart(n' + 1))
      BY <1>2, <3>1
    <3>6. QED
      BY <3>4, <3>5
  <2>6. QED
    BY <1>1, <2>5 DEF KeepsPace, PeriodStart, TickPerBuf
<1>9. QED
  BY <1>5, <1>6, <1>7, <1>8 DEF TimelineInv

LEMMA StopStep ==
  ASSUME TimelineInv, NEW c \in Clients, StopIO(c)
  PROVE  TimelineInv'
<1>0. /\ TypeOK
      /\ client \in [Clients -> [pc : {"off", "started", "paced"}, start : Nat, next : Nat]]
  BY DEF TimelineInv, TypeOK
<1>1. /\ client[c].pc # "off" /\ UNCHANGED <<now, gAnchorHostTime, gNumberTimeStamps, stamp>>
      /\ client' = [client EXCEPT ![c] = [pc |-> "off", start |-> 0, next |-> 0]]
  BY DEF StopIO, Off
<1>2. /\ client'[c].pc = "off"
      /\ \A d \in Clients : d # c => client'[d] = client[d]
  BY <1>0, <1>1
<1>3. gIORunning' = gIORunning - 1 /\ RunningInv' /\ gIORunning' \in Nat
  <2>1. Running' = Running \ {c} /\ c \in Running
    BY <1>1, <1>2 DEF Running
  <2>2. /\ Cardinality(Running \ {c}) = Cardinality(Running) - 1
        /\ Cardinality(Running \ {c}) \in Nat
    BY <2>1, RunningFinite, FS_RemoveElement, FS_CardinalityType
  <2>3. gIORunning = Cardinality(Running) /\ gIORunning \in Nat /\ gIORunning > 0
    BY <2>2, RunningFinite DEF TimelineInv, RunningInv
  <2>4. gIORunning' = gIORunning - 1
    BY <2>3 DEF StopIO
  <2>5. QED
    BY <2>1, <2>2, <2>3, <2>4 DEF RunningInv
<1>4. TypeOK'
  BY <1>0, <1>1, <1>3 DEF TypeOK
<1>5. StampInv'
  BY <1>1 DEF TimelineInv, StampInv, PeriodStart
<1>6. KeepsPace'
  BY <1>1, <1>2 DEF TimelineInv, KeepsPace, PeriodStart
<1>7. QED
  BY <1>3, <1>4, <1>5, <1>6 DEF TimelineInv

LEMMA TimelineStep == TimelineInv /\ [Next]_vars => TimelineInv'
<1>1. TimelineInv /\ UNCHANGED vars => TimelineInv'
  BY DEF TimelineInv, TypeOK, StampInv, RunningInv, Running, KeepsPace, PeriodStart, vars, pluginVars
<1>2. QED
  BY <1>1, ClockStep, StartStep, ScheduleStep, StampStep, StopStep DEF Next

LEMMA TimelineInvariant == Spec => []TimelineInv
  BY TimelineInit, TimelineStep, PTL DEF Spec

-----------------------------------------------------------------------------
(* Every variable keeps its type.                                          *)
THEOREM TypeCorrect == Spec => []TypeOK
<1>1. TimelineInv => TypeOK
  BY DEF TimelineInv
<1>2. QED
  BY <1>1, TimelineInvariant, PTL

(* GetZeroTimeStamp never names a moment that is still to come.            *)
THEOREM NotAhead == Spec => []NeverAhead
<1>1. TimelineInv => NeverAhead
  BY Periods DEF TimelineInv, StampInv, NeverAhead, TypeOK
<1>2. QED
  BY <1>1, TimelineInvariant, PTL

(* Every stamp lies on the line through its session's anchor, rounded down *)
(* by less than a tick, however long the session.                          *)
THEOREM StampsOnTheLine == Spec => []OnTheLine
<1>1. TimelineInv => OnTheLine
  <2> SUFFICES ASSUME TimelineInv PROVE OnTheLine
    OBVIOUS
  <2>1. stamp.sample \in Nat /\ stamp.host \in Nat /\ stamp.anchor \in Nat
    BY DEF TimelineInv, TypeOK
  <2>2. stamp.host - stamp.anchor = Ticks(stamp.sample)
    BY <2>1, TicksType DEF TimelineInv, StampInv
  <2>3. /\ Ticks(stamp.sample) * TicksDen <= stamp.sample * TicksNum
        /\ stamp.sample * TicksNum < (Ticks(stamp.sample) + 1) * TicksDen
    BY <2>1, Constants, TicksType, Division DEF Ticks
  <2>4. QED
    BY <2>2, <2>3 DEF OnTheLine
<1>2. QED
  BY <1>1, TimelineInvariant, PTL

(* One period per call is enough, for any IO threads that come and go and  *)
(* pause as they like.                                                     *)
THEOREM PaceKept == Spec => []KeepsPace
<1>1. TimelineInv => KeepsPace
  BY DEF TimelineInv
<1>2. QED
  BY <1>1, TimelineInvariant, PTL

-----------------------------------------------------------------------------
(* A period that takes at least a tick gives sessions with the same anchor *)
(* the same stamps.                                                        *)
SessionInv ==
  /\ stamp.sample = 0 \/ RingPeriod <= stamp.sample
  /\ stamp.anchor = gAnchorHostTime => stamp.sample <= gNumberTimeStamps * RingPeriod

LEMMA SessionStep ==
  ASSUME Ticks(RingPeriod) > 0
  PROVE  TimelineInv /\ SessionInv /\ [Next]_vars =>
           /\ SessionInv'
           /\ stamp'.host >= stamp.host
           /\ stamp'.anchor = stamp.anchor => stamp'.sample >= stamp.sample
<1> SUFFICES ASSUME TimelineInv, SessionInv, [Next]_vars
             PROVE  /\ SessionInv'
                    /\ stamp'.host >= stamp.host
                    /\ stamp'.anchor = stamp.anchor => stamp'.sample >= stamp.sample
  OBVIOUS
<1>0. /\ stamp.sample \in Nat /\ stamp.host \in Nat /\ stamp.anchor \in Nat
      /\ gNumberTimeStamps \in Nat /\ gAnchorHostTime \in Nat /\ now \in Nat
  BY DEF TimelineInv, TypeOK
<1>1. CASE UNCHANGED <<gAnchorHostTime, gNumberTimeStamps, stamp>>
  BY <1>0, <1>1 DEF SessionInv
<1>2. CASE gAnchorHostTime' = now /\ gNumberTimeStamps' = 0 /\ UNCHANGED stamp
  <2>1. ASSUME stamp.anchor = now
        PROVE  stamp.sample <= 0
    <3>1. PeriodStart(gNumberTimeStamps) \in Nat
      BY <1>0, Periods DEF TimelineInv
    <3>2. Ticks(stamp.sample) = 0
      BY <1>0, <2>1, <3>1, TicksType DEF TimelineInv, StampInv
    <3>3. RingPeriod <= stamp.sample => Ticks(RingPeriod) <= Ticks(stamp.sample)
      BY <1>0, Constants, TicksMonotone
    <3>4. stamp.sample = 0
      BY <3>2, <3>3, TicksType, Constants DEF SessionInv
    <3>5. QED
      BY <3>4
  <2>2. 0 * RingPeriod = 0
    BY Constants
  <2>3. QED
    BY <1>0, <1>2, <2>1, <2>2 DEF SessionInv
<1>3. ASSUME NEW c \in Clients, GetZeroTimeStamp(c)
      PROVE  /\ SessionInv'
             /\ stamp'.host >= stamp.host
             /\ stamp'.anchor = stamp.anchor => stamp'.sample >= stamp.sample
  <2>1. /\ UNCHANGED gAnchorHostTime /\ gNumberTimeStamps' = StampsNow
        /\ stamp'.anchor = gAnchorHostTime /\ stamp'.sample = StampsNow * RingPeriod
    BY <1>3 DEF GetZeroTimeStamp
  <2>2. stamp.host <= stamp'.host /\ stamp'.host \in Nat
    BY <1>3, StampStep DEF TimelineInv, TypeOK
  <2>3. PICK k \in Nat : k = StampsNow /\ gNumberTimeStamps <= k
    BY <1>0 DEF StampsNow
  <2>4. /\ gNumberTimeStamps * RingPeriod \in Nat /\ k * RingPeriod \in Nat
        /\ gNumberTimeStamps * RingPeriod <= k * RingPeriod
        /\ k * RingPeriod = 0 \/ RingPeriod <= k * RingPeriod
    <3>1. k = 0 \/ 1 <= k
      BY <2>3
    <3>2. 0 * RingPeriod = 0 /\ 1 * RingPeriod = RingPeriod
      BY Constants
    <3>3. 1 <= k => 1 * RingPeriod <= k * RingPeriod
      BY Constants
    <3>4. gNumberTimeStamps * RingPeriod <= k * RingPeriod
      BY <1>0, <2>3, Constants
    <3>5. gNumberTimeStamps * RingPeriod \in Nat /\ k * RingPeriod \in Nat
      BY <1>0, Constants
    <3>6. QED
      BY <3>1, <3>2, <3>3, <3>4, <3>5
  <2>5. SessionInv'
    <3>1. gNumberTimeStamps' * RingPeriod = k * RingPeriod /\ stamp'.sample = k * RingPeriod
      BY <2>1, <2>3
    <3>2. k * RingPeriod <= k * RingPeriod
      BY <2>4
    <3>3. QED
      BY <2>4, <3>1, <3>2 DEF SessionInv
  <2>6. stamp'.anchor = stamp.anchor => stamp'.sample >= stamp.sample
    <3>1. stamp'.sample = k * RingPeriod
      BY <2>1, <2>3
    <3>2. stamp.anchor = gAnchorHostTime => stamp.sample <= k * RingPeriod
      BY <1>0, <2>4 DEF SessionInv
    <3>3. QED
      BY <1>0, <2>1, <2>4, <3>1, <3>2
  <2>7. QED
    BY <1>0, <2>2, <2>5, <2>6
<1>4. \/ UNCHANGED <<gAnchorHostTime, gNumberTimeStamps, stamp>>
      \/ gAnchorHostTime' = now /\ gNumberTimeStamps' = 0 /\ UNCHANGED stamp
      \/ \E c \in Clients : GetZeroTimeStamp(c)
  BY DEF Next, ClockAdvances, StartIO, Schedule, StopIO, vars, pluginVars
<1>5. QED
  BY <1>1, <1>2, <1>3, <1>4

(* As long as a period lasts a tick, time does not run backwards for the   *)
(* host, not even from one session to the next.                            *)
THEOREM NoStepBack ==
  ASSUME Ticks(RingPeriod) > 0
  PROVE  Spec => Monotone
<1>1. Init => SessionInv
  BY Constants DEF Init, SessionInv
<1>2. TimelineInv /\ SessionInv /\ [Next]_vars =>
        /\ SessionInv'
        /\ [/\ stamp'.host >= stamp.host
            /\ stamp'.anchor = stamp.anchor => stamp'.sample >= stamp.sample]_vars
  BY SessionStep
<1>3. QED
  BY <1>1, <1>2, TimelineInvariant, PTL DEF Spec, Monotone
=============================================================================
