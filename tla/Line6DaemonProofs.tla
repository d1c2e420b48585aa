-------------------------- MODULE Line6DaemonProofs --------------------------
(***************************************************************************)
(* The invariants of the daemon's main loop, for any devices, any number   *)
(* of instances and any grace; what holds in addition as long as only one  *)
(* instance runs; and that every instance is a run of the abstract daemon. *)
(***************************************************************************)
EXTENDS Line6Daemon, TLAPS

(* The count of looks never passes the grace: an instance that is not over *)
(* is below it.                                                            *)
BelowGrace == \A i \in Instances : pc[i] # "off" => absent[i] < ExitGrace

(* absent_count counts only looks that found nothing, and only between two *)
(* attempts to capture.                                                    *)
CountsMisses ==
  \A i \in Instances :
    /\ pc[i] \in {"loop", "sleep"} => absent[i] <= missed[i]
    /\ pc[i] = "run" => absent[i] = 0

TypeInv == TypeOK /\ BelowGrace

LoopInv == TypeInv /\ CountsMisses /\ ExitOnlyAfterGrace

(* A device is chosen before it is described, and described before it is   *)
(* captured; what the header describes is what this instance wrote last.   *)
HeaderInv ==
  \A i \in Instances :
    /\ pc[i] \in {"create", "start", "run"} => device[i] # None
    /\ pc[i] \in {"start", "run"} => shmPid[i] = device[i]
    /\ shmPid[i] # None => segment = [describes |-> shmPid[i], creator |-> i]

-----------------------------------------------------------------------------
LEMMA Bounds ==
  /\ ExitGrace \in Nat /\ 0 < ExitGrace /\ StallRounds \in Nat
  /\ 0 \in 0 .. ExitGrace /\ 0 \in 0 .. StallRounds
<1>1. ExitGrace \in Nat \ {0} /\ StallRounds \in Nat
  BY DaemonAssumption
<1>2. QED
  BY <1>1

LEMMA Counting ==
  /\ \A k \in 0 .. ExitGrace : k < ExitGrace => k + 1 \in 0 .. ExitGrace
  /\ \A k \in 0 .. StallRounds : k < StallRounds => k + 1 \in 0 .. StallRounds
  /\ \A k \in 0 .. ExitGrace : 0 <= k
  BY Bounds

LEMMA TypeInit == Init => TypeInv
<1> SUFFICES ASSUME Init PROVE TypeInv
  OBVIOUS
<1>1. QED
  BY Bounds DEF Init, TypeInv, TypeOK, BelowGrace

LEMMA TypeStep == TypeInv /\ [Next]_vars => TypeInv'
<1> SUFFICES ASSUME TypeInv, [Next]_vars PROVE TypeInv'
  OBVIOUS
<1> USE DEF TypeInv, TypeOK, BelowGrace, process
<1>1. CASE Falter
  BY <1>1 DEF Falter
<1>2. CASE Recover
  BY <1>2 DEF Recover
<1>3. ASSUME NEW d \in Devices, Plug(d) PROVE TypeInv'
  BY <1>3 DEF Plug, bus
<1>4. ASSUME NEW d \in Devices, Unplug(d) PROVE TypeInv'
  BY <1>4 DEF Unplug
<1>5. ASSUME NEW i \in Instances, Signal(i) PROVE TypeInv'
  BY <1>5 DEF Signal, bus
<1>6. ASSUME NEW i \in Instances, Kill(i) PROVE TypeInv'
  BY <1>6 DEF Kill, Ends, Released, bus
<1>7. ASSUME NEW i \in Instances, CreateFails(i) PROVE TypeInv'
  BY <1>7 DEF CreateFails, Ends, Released, bus
<1>8. ASSUME NEW i \in Instances, Launch(i) PROVE TypeInv'
  BY Bounds, <1>8 DEF Launch, bus
<1>9. ASSUME NEW i \in Instances, LoopEnds(i) PROVE TypeInv'
  BY <1>9 DEF LoopEnds, Ends, Released, bus
<1>10. ASSUME NEW i \in Instances, LookFinds(i) PROVE TypeInv'
  <2>1. device' \in [Instances -> Devices \cup {None}]
    <3>1. FindConnected \ {None} \subseteq Devices
      BY DEF FindConnected
    <3>2. QED
      BY <1>10, <3>1 DEF LookFinds
  <2>2. missed' \in [Instances -> 0 .. ExitGrace]
    BY Bounds, <1>10 DEF LookFinds
  <2>3. pc[i] = "loop" /\ pc' = [pc EXCEPT ![i] = "create"]
    BY <1>10 DEF LookFinds
  <2>4. UNCHANGED <<bus, owner, segment, exitWhenAbsent,
                 exit, RUNNING, shmPid, absent, alive, moved, quiet>>
    BY <1>10 DEF LookFinds
  <2>5. QED
    BY <2>1, <2>2, <2>3, <2>4 DEF bus
<1>11. ASSUME NEW i \in Instances, LookMisses(i) PROVE TypeInv'
  <2>0. pc[i] = "loop" /\ absent[i] \in 0 .. ExitGrace /\ missed[i] \in 0 .. ExitGrace
    BY <1>11 DEF LookMisses
  <2>1. absent[i] < ExitGrace
    BY <2>0
  <2>2. /\ absent' \in [Instances -> 0 .. ExitGrace]
        /\ missed' \in [Instances -> 0 .. ExitGrace]
        /\ \A j \in Instances : j # i => absent'[j] = absent[j]
    <3>1. absent' = [absent EXCEPT ![i] = IF exitWhenAbsent THEN @ + 1 ELSE @]
          /\ missed' = [missed EXCEPT ![i] = IF @ < ExitGrace THEN @ + 1 ELSE @]
      BY <1>11 DEF LookMisses
    <3>2. absent[i] + 1 \in 0 .. ExitGrace /\ (missed[i] < ExitGrace => missed[i] + 1 \in 0 .. ExitGrace)
      BY Counting, <2>0, <2>1
    <3>3. QED
      BY <3>1, <3>2
  <2>3. CASE absent'[i] >= ExitGrace /\ Ends(i, "absent")
    BY <1>11, <2>2, <2>3 DEF LookMisses, Ends, Released, bus
  <2>4. CASE absent'[i] < ExitGrace /\ pc' = [pc EXCEPT ![i] = "sleep"] /\ UNCHANGED <<exit, owner, alive>>
    BY <1>11, <2>2, <2>4 DEF LookMisses, bus
  <2>5. QED
    BY <1>11, <2>3, <2>4 DEF LookMisses
<1>12. ASSUME NEW i \in Instances, Create(i) PROVE TypeInv'
  <2>1. pc[i] = "create" /\ pc' = [pc EXCEPT ![i] = "start"] /\ device[i] \in Devices \cup {None}
    BY <1>12 DEF Create
  <2>2. /\ segment' \in [describes : Devices \cup {None}, creator : Instances \cup {None}]
        /\ shmPid' \in [Instances -> Devices \cup {None}]
    <3>1. CASE ~MustCreate(i)
      BY <1>12, <3>1 DEF Create
    <3>2. CASE MustCreate(i)
      <4>1. /\ segment' = [describes |-> device[i], creator |-> i]
            /\ shmPid' = [shmPid EXCEPT ![i] = device[i]]
        BY <1>12, <3>2 DEF Create
      <4>2. QED
        BY <2>1, <4>1
    <3>3. QED
      BY <3>1, <3>2
  <2>3. moved' \in [Instances -> BOOLEAN]
    BY <1>12 DEF Create, Capturing
  <2>4. QED
    BY <1>12, <2>1, <2>2, <2>3 DEF Create, bus
<1>13. ASSUME NEW i \in Instances, StartSucceeds(i) PROVE TypeInv'
  BY Bounds, <1>13 DEF StartSucceeds, bus
<1>14. ASSUME NEW i \in Instances, StartFails(i) PROVE TypeInv'
  BY Bounds, <1>14 DEF StartFails, bus
<1>15. ASSUME NEW i \in Instances, Wakes(i) PROVE TypeInv'
  BY <1>15 DEF Wakes, bus
<1>16. ASSUME NEW i \in Instances, Service(i) PROVE TypeInv'
  <2>1. /\ pc[i] = "run" /\ pc' \in [Instances -> {"off", "loop", "create", "start", "run", "sleep"}]
        /\ \A j \in Instances : pc'[j] # "off" => pc[j] # "off"
    BY <1>16 DEF Service
  <2>2. quiet' \in [Instances -> 0 .. StallRounds]
    <3>1. quiet[i] \in 0 .. StallRounds
      BY <1>16
    <3>2. quiet[i] < StallRounds => quiet[i] + 1 \in 0 .. StallRounds
      BY Counting, <3>1
    <3>3. \/ quiet' = [quiet EXCEPT ![i] = 0]
          \/ quiet' = [quiet EXCEPT ![i] = IF @ < StallRounds THEN @ + 1 ELSE @]
          \/ UNCHANGED quiet
      BY <1>16 DEF Service
    <3>4. QED
      BY Bounds, <3>2, <3>3
  <2>3. owner' \in [Devices -> Instances \cup {None}] /\ alive' \in [Instances -> BOOLEAN]
    BY <1>16 DEF Service, Released
  <2>4. moved' \in [Instances -> BOOLEAN]
    <3>1. \A frames \in Frames(i) : frames \in BOOLEAN
      BY DEF Frames
    <3>2. QED
      BY <1>16, <3>1 DEF Service, Capturing
  <2>5. QED
    BY <1>16, <2>1, <2>2, <2>3, <2>4 DEF Service, bus
<1>17. CASE UNCHANGED vars
  BY <1>17 DEF vars, bus
<1>18. QED
  BY <1>1, <1>2, <1>3, <1>4, <1>5, <1>6, <1>7, <1>8, <1>9, <1>10, <1>11, <1>12, <1>13, <1>14,
     <1>15, <1>16, <1>17 DEF Next, Disturbance, Step

-----------------------------------------------------------------------------
(* What an instance counts survives every step, its own and the others'.   *)
LEMMA LoopStep == LoopInv /\ [Next]_vars => LoopInv'
<1> SUFFICES ASSUME LoopInv, [Next]_vars PROVE CountsMisses' /\ ExitOnlyAfterGrace'
  BY TypeStep DEF LoopInv
<1> USE DEF CountsMisses, ExitOnlyAfterGrace, process
<1>0. /\ pc \in [Instances -> {"off", "loop", "create", "start", "run", "sleep"}]
      /\ exit \in [Instances -> {"never ran", "signal", "absent", "error", "killed"}]
      /\ absent \in [Instances -> 0 .. ExitGrace] /\ missed \in [Instances -> 0 .. ExitGrace]
      /\ CountsMisses /\ ExitOnlyAfterGrace
  BY DEF LoopInv, TypeInv, TypeOK
<1> HIDE DEF LoopInv
<1>1. CASE Falter \/ Recover
  <2>1. UNCHANGED <<exitWhenAbsent, pc, exit, absent, missed>>
    BY <1>1 DEF Falter, Recover
  <2>2. QED
    BY <1>0, <2>1
<1>2. CASE \E d \in Devices : Plug(d) \/ Unplug(d)
  <2>1. UNCHANGED <<exitWhenAbsent, pc, exit, absent, missed>>
    BY <1>2 DEF Plug, Unplug
  <2>2. QED
    BY <1>0, <2>1
<1>3. ASSUME NEW i \in Instances, Signal(i) PROVE CountsMisses' /\ ExitOnlyAfterGrace'
  BY <1>0, <1>3 DEF Signal
<1>4. ASSUME NEW i \in Instances, Kill(i) \/ CreateFails(i) \/ LoopEnds(i)
      PROVE  CountsMisses' /\ ExitOnlyAfterGrace'
  <2>1. \E r \in {"killed", "error", "signal"} : Ends(i, r)
    BY <1>4 DEF Kill, CreateFails, LoopEnds
  <2>2. UNCHANGED <<exitWhenAbsent, absent, missed>>
    BY <1>4 DEF Kill, CreateFails, LoopEnds
  <2>3. QED
    BY <1>0, <2>1, <2>2 DEF Ends
<1>5. ASSUME NEW i \in Instances, Launch(i) PROVE CountsMisses' /\ ExitOnlyAfterGrace'
  <2>1. /\ pc' = [pc EXCEPT ![i] = "loop"] /\ UNCHANGED <<exitWhenAbsent, exit>>
        /\ absent' = [absent EXCEPT ![i] = 0] /\ missed' = [missed EXCEPT ![i] = 0]
    BY <1>5 DEF Launch
  <2>2. absent'[i] = 0 /\ missed'[i] = 0 /\ pc'[i] = "loop"
    BY <1>0, <2>1
  <2>3. \A j \in Instances : j # i =>
          pc'[j] = pc[j] /\ absent'[j] = absent[j] /\ missed'[j] = missed[j]
    BY <1>0, <2>1
  <2>4. absent'[i] <= missed'[i]
    BY <2>2
  <2>5. QED
    BY <1>0, <2>1, <2>2, <2>3, <2>4
<1>6. ASSUME NEW i \in Instances, LookFinds(i) PROVE CountsMisses' /\ ExitOnlyAfterGrace'
  BY <1>0, <1>6, Bounds DEF LookFinds
<1>7. ASSUME NEW i \in Instances, LookMisses(i) PROVE CountsMisses' /\ ExitOnlyAfterGrace'
  <2>1. /\ pc[i] = "loop"
        /\ missed' = [missed EXCEPT ![i] = IF @ < ExitGrace THEN @ + 1 ELSE @]
        /\ absent' = [absent EXCEPT ![i] = IF exitWhenAbsent THEN @ + 1 ELSE @]
        /\ UNCHANGED exitWhenAbsent
    BY <1>7 DEF LookMisses
  <2>2. /\ absent[i] < ExitGrace /\ absent[i] <= missed[i]
        /\ absent[i] \in Nat /\ missed[i] \in Nat /\ missed[i] <= ExitGrace /\ ExitGrace \in Nat
    <3>1. absent[i] < ExitGrace /\ absent[i] <= missed[i]
      BY <1>0, <2>1 DEF LoopInv, TypeInv, BelowGrace
    <3>2. absent[i] \in 0 .. ExitGrace /\ missed[i] \in 0 .. ExitGrace
      BY <1>0
    <3>3. QED
      BY <3>1, <3>2, Bounds
  <2>3. /\ absent'[i] <= missed'[i]
        /\ absent'[i] >= ExitGrace => exitWhenAbsent /\ missed'[i] >= ExitGrace
    <3>1. missed'[i] = IF missed[i] < ExitGrace THEN missed[i] + 1 ELSE missed[i]
      BY <1>0, <2>1
    <3>2. absent'[i] = IF exitWhenAbsent THEN absent[i] + 1 ELSE absent[i]
      BY <1>0, <2>1
    <3>3. QED
      BY <2>2, <3>1, <3>2
  <2>4. \A j \in Instances : j # i => absent'[j] = absent[j] /\ missed'[j] = missed[j]
    BY <2>1
  <2>5. \/ absent'[i] >= ExitGrace /\ Ends(i, "absent")
        \/ pc' = [pc EXCEPT ![i] = "sleep"] /\ exit' = exit
    BY <1>7 DEF LookMisses
  <2>6. QED
    BY <1>0, <2>1, <2>3, <2>4, <2>5 DEF Ends
<1>8. ASSUME NEW i \in Instances, Create(i) PROVE CountsMisses' /\ ExitOnlyAfterGrace'
  BY <1>0, <1>8 DEF Create
<1>9. ASSUME NEW i \in Instances, StartSucceeds(i) \/ StartFails(i)
      PROVE  CountsMisses' /\ ExitOnlyAfterGrace'
  <2>1. /\ absent' = [absent EXCEPT ![i] = 0] /\ UNCHANGED <<exitWhenAbsent, exit, missed>>
        /\ pc' = [pc EXCEPT ![i] = "run"] \/ pc' = [pc EXCEPT ![i] = "sleep"]
    BY <1>9 DEF StartSucceeds, StartFails
  <2>2. 0 <= missed[i]
    BY <1>0, Counting
  <2>3. QED
    BY <1>0, <2>1, <2>2
<1>10. ASSUME NEW i \in Instances, Wakes(i) PROVE CountsMisses' /\ ExitOnlyAfterGrace'
  BY <1>0, <1>10 DEF Wakes
<1>11. ASSUME NEW i \in Instances, Service(i) PROVE CountsMisses' /\ ExitOnlyAfterGrace'
  <2>1. /\ pc[i] = "run" /\ UNCHANGED <<exitWhenAbsent, exit, absent, missed>>
        /\ pc' = pc \/ pc' = [pc EXCEPT ![i] = "loop"]
    BY <1>11 DEF Service
  <2>2. absent[i] = 0 /\ 0 <= missed[i]
    BY <1>0, <2>1, Counting
  <2>3. QED
    BY <1>0, <2>1, <2>2
<1>12. CASE UNCHANGED vars
  BY <1>0, <1>12 DEF vars
<1>13. QED
  BY <1>1, <1>2, <1>3, <1>4, <1>5, <1>6, <1>7, <1>8, <1>9, <1>10, <1>11, <1>12
     DEF Next, Disturbance, Step

-----------------------------------------------------------------------------
(* With a single instance nobody else rewrites the header.                 *)
LEMMA HeaderStep ==
  ASSUME \A i, j \in Instances : i = j
  PROVE  TypeInv /\ HeaderInv /\ [Next]_vars => HeaderInv'
<1> SUFFICES ASSUME TypeInv, HeaderInv, [Next]_vars PROVE HeaderInv'
  OBVIOUS
<1> USE DEF HeaderInv, process
<1>0. /\ pc \in [Instances -> {"off", "loop", "create", "start", "run", "sleep"}]
      /\ device \in [Instances -> Devices \cup {None}]
      /\ shmPid \in [Instances -> Devices \cup {None}]
  BY DEF TypeInv, TypeOK
<1> HIDE DEF TypeInv
<1>1. CASE Falter \/ Recover
  BY <1>1 DEF Falter, Recover
<1>2. CASE \E d \in Devices : Plug(d) \/ Unplug(d)
  BY <1>2 DEF Plug, Unplug
<1>3. ASSUME NEW i \in Instances, Signal(i) PROVE HeaderInv'
  BY <1>3 DEF Signal
<1>4. ASSUME NEW i \in Instances, Kill(i) \/ CreateFails(i) \/ LoopEnds(i) PROVE HeaderInv'
  <2>1. pc' = [pc EXCEPT ![i] = "off"] /\ UNCHANGED <<device, shmPid, segment>>
    BY <1>4 DEF Kill, CreateFails, LoopEnds, Ends
  <2>2. QED
    BY <1>0, <2>1
<1>5. ASSUME NEW i \in Instances, Launch(i) PROVE HeaderInv'
  BY <1>0, <1>5 DEF Launch
<1>6. ASSUME NEW i \in Instances, LookFinds(i) PROVE HeaderInv'
  <2>1. /\ pc' = [pc EXCEPT ![i] = "create"] /\ UNCHANGED <<shmPid, segment>>
        /\ \E d \in FindConnected \ {None} : device' = [device EXCEPT ![i] = d]
    BY <1>6 DEF LookFinds
  <2>2. QED
    BY <1>0, <2>1
<1>7. ASSUME NEW i \in Instances, LookMisses(i) \/ Wakes(i) \/ StartFails(i) \/ Service(i)
      PROVE  HeaderInv'
  <2>1. /\ UNCHANGED <<device, shmPid, segment>>
        /\ pc' = pc \/ \E s \in {"off", "sleep", "loop"} : pc' = [pc EXCEPT ![i] = s]
    BY <1>7 DEF LookMisses, Wakes, StartFails, Service, Ends
  <2>2. QED
    BY <1>0, <2>1
<1>8. ASSUME NEW i \in Instances, Create(i) PROVE HeaderInv'
  <2>1. pc[i] = "create" /\ pc' = [pc EXCEPT ![i] = "start"] /\ UNCHANGED device
    BY <1>8 DEF Create
  <2>2. \/ shmPid[i] = device[i] /\ UNCHANGED <<segment, shmPid>>
        \/ /\ segment' = [describes |-> device[i], creator |-> i]
           /\ shmPid' = [shmPid EXCEPT ![i] = device[i]]
    BY <1>8 DEF Create, MustCreate
  <2>3. QED
    BY <1>0, <2>1, <2>2
<1>9. ASSUME NEW i \in Instances, StartSucceeds(i) PROVE HeaderInv'
  BY <1>0, <1>9 DEF StartSucceeds
<1>10. CASE UNCHANGED vars
  BY <1>10 DEF vars
<1>11. QED
  BY <1>1, <1>2, <1>3, <1>4, <1>5, <1>6, <1>7, <1>8, <1>9, <1>10 DEF Next, Disturbance, Step

-----------------------------------------------------------------------------
(* Every variable keeps its type; absent_count never passes the grace.     *)
THEOREM TypeCorrect == Spec => []TypeOK
<1>1. TypeInv => TypeOK
  BY DEF TypeInv
<1>2. QED
  BY <1>1, TypeInit, TypeStep, PTL DEF Spec

(* However many instances run, and whatever is plugged, unplugged, killed  *)
(* and restarted, an instance ends for want of a device only after a full  *)
(* grace of looks in a row that found none.                                *)
THEOREM ExitAfterGrace == Spec => []ExitOnlyAfterGrace
<1>1. Init => LoopInv
  <2>1. Init => CountsMisses /\ ExitOnlyAfterGrace
    BY DEF Init, CountsMisses, ExitOnlyAfterGrace
  <2>2. QED
    BY <2>1, TypeInit DEF LoopInv
<1>2. LoopInv => ExitOnlyAfterGrace
  BY DEF LoopInv
<1>3. QED
  BY <1>1, <1>2, LoopStep, PTL DEF Spec

(* As long as one instance runs, what the header describes is what is      *)
(* captured (two instances can break this: they share the segment).        *)
THEOREM HeaderCorrect ==
  ASSUME \A i, j \in Instances : i = j
  PROVE  Spec => [](HeaderMatchesCapture /\ SoleProducer)
<1>1. Init => TypeInv /\ HeaderInv
  <2>1. Init => HeaderInv
    BY DEF Init, HeaderInv
  <2>2. QED
    BY <2>1, TypeInit
<1>2. TypeInv /\ HeaderInv /\ [Next]_vars => TypeInv' /\ HeaderInv'
  BY TypeStep, HeaderStep
<1>3. HeaderInv => HeaderMatchesCapture /\ SoleProducer
  BY DEF HeaderInv, HeaderMatchesCapture, SoleProducer, Capturing
<1>4. QED
  BY <1>1, <1>2, <1>3, PTL DEF Spec

-----------------------------------------------------------------------------
(* The abstract daemon.  A step of another instance, of the bus or of the  *)
(* devices is not seen.                                                    *)
LEMMA OthersUnseen ==
  ASSUME TypeOK, NEW i \in Instances, NEW j \in Instances, j # i,
         Signal(j) \/ Kill(j) \/ CreateFails(j) \/ Launch(j) \/ Step(j)
  PROVE  UNCHANGED <<Place(i), absent[i], exitWhenAbsent>>
<1> USE DEF Place, TypeOK, process
<1>1. CASE Signal(j) \/ Kill(j) \/ CreateFails(j) \/ Launch(j)
  BY <1>1 DEF Signal, Kill, CreateFails, Launch, Ends
<1>2. CASE LoopEnds(j) \/ LookFinds(j) \/ LookMisses(j)
  BY <1>2 DEF LoopEnds, LookFinds, LookMisses, Ends
<1>3. CASE Create(j) \/ StartSucceeds(j) \/ StartFails(j) \/ Wakes(j)
  BY <1>3 DEF Create, StartSucceeds, StartFails, Wakes
<1>4. CASE Service(j)
  BY <1>4 DEF Service
<1>5. QED
  BY <1>1, <1>2, <1>3, <1>4 DEF Step

LEMMA BusUnseen ==
  ASSUME NEW i \in Instances,
         \/ Falter \/ Recover \/ UNCHANGED vars
         \/ \E d \in Devices : Plug(d) \/ Unplug(d)
  PROVE  UNCHANGED <<Place(i), absent[i], exitWhenAbsent>>
  BY DEF Falter, Recover, Plug, Unplug, vars, process, Place

LEMMA EndsShown ==
  ASSUME TypeOK, NEW i \in Instances, pc[i] # "off", NEW reason, reason # "absent",
         Ends(i, reason), UNCHANGED <<absent, exitWhenAbsent>>
  PROVE  Session(i)!Dies
<1>1. pc'[i] = "off" /\ exit'[i] = reason
  BY DEF Ends, TypeOK
<1>2. Place(i)' = "off"
  BY <1>1 DEF Place
<1>3. Place(i) \notin {"off", "exited"}
  <2>1. pc[i] \in {"loop", "create", "start", "run", "sleep"}
    BY DEF TypeOK
  <2>2. QED
    BY <2>1 DEF Place
<1>4. QED
  BY <1>2, <1>3 DEF Session!Dies, Session!Up

(* The look, and what it leads to.                                         *)
LEMMA LookShown ==
  ASSUME TypeOK, NEW i \in Instances, LookMisses(i)
  PROVE  Session(i)!Misses
<1>1. pc[i] = "loop" /\ UNCHANGED exitWhenAbsent /\ Place(i) = "look"
  BY DEF LookMisses, Place
<1>2. absent'[i] = IF exitWhenAbsent THEN absent[i] + 1 ELSE absent[i]
  BY DEF LookMisses, TypeOK
<1>3. absent'[i] \in Nat /\ ExitGrace \in Nat
  <2>1. absent[i] \in 0 .. ExitGrace
    BY DEF TypeOK
  <2>2. absent[i] \in Nat /\ absent[i] + 1 \in Nat
    BY <2>1, Bounds
  <2>3. QED
    BY <1>2, <2>2, Bounds
<1>4. Place(i)' = IF absent'[i] >= ExitGrace THEN "exited" ELSE "sleep"
  <2>1. CASE absent'[i] >= ExitGrace /\ Ends(i, "absent")
    <3>1. pc'[i] = "off" /\ exit'[i] = "absent"
      BY <2>1 DEF Ends, TypeOK
    <3>2. QED
      BY <2>1, <3>1 DEF Place
  <2>2. CASE absent'[i] < ExitGrace /\ pc' = [pc EXCEPT ![i] = "sleep"]
    <3>1. pc'[i] = "sleep"
      BY <2>2 DEF TypeOK
    <3>2. ~(absent'[i] >= ExitGrace)
      BY <1>3, <2>2
    <3>3. QED
      BY <3>1, <3>2 DEF Place
  <2>3. QED
    BY <2>1, <2>2 DEF LookMisses
<1>5. QED
  BY <1>1, <1>2, <1>4 DEF Session!Misses

LEMMA OwnShown ==
  ASSUME TypeOK, NEW i \in Instances,
         Signal(i) \/ Kill(i) \/ CreateFails(i) \/ Launch(i) \/ Step(i)
  PROVE  [Session(i)!Next]_(Session(i)!vars)
<1> USE DEF TypeOK, process
<1>1. CASE Signal(i) \/ LookFinds(i) \/ Create(i)
  BY <1>1 DEF Signal, LookFinds, Create, Place, Session!vars
<1>2. CASE Kill(i) \/ CreateFails(i) \/ LoopEnds(i)
  <2>1. /\ pc[i] # "off" /\ UNCHANGED <<absent, exitWhenAbsent>>
        /\ Ends(i, "killed") \/ Ends(i, "error") \/ Ends(i, "signal")
    BY <1>2 DEF Kill, CreateFails, LoopEnds
  <2>2. Session(i)!Dies
    BY <2>1, EndsShown
  <2>3. QED
    BY <2>2 DEF Session!Next
<1>3. CASE Launch(i)
  BY <1>3 DEF Launch, Place, Session!Launched, Session!Up, Session!Next
<1>4. CASE StartSucceeds(i)
  BY <1>4 DEF StartSucceeds, Place, Session!Finds, Session!Next
<1>5. CASE StartFails(i)
  BY <1>5 DEF StartFails, Place, Session!Finds, Session!Next
<1>6. CASE LookMisses(i)
  BY <1>6, LookShown DEF Session!Next
<1>7. CASE Wakes(i)
  BY <1>7 DEF Wakes, Place, Session!LooksAgain, Session!Next
<1>8. CASE Service(i)
  <2>1. UNCHANGED <<exit, absent, exitWhenAbsent>> /\ pc[i] = "run"
        /\ (pc' = pc \/ pc' = [pc EXCEPT ![i] = "loop"])
    BY <1>8 DEF Service
  <2>2. QED
    BY <2>1 DEF Place, Session!LooksAgain, Session!Next, Session!vars
<1>9. QED
  BY <1>1, <1>2, <1>3, <1>4, <1>5, <1>6, <1>7, <1>8 DEF Step

LEMMA SessionShown ==
  ASSUME NEW i \in Instances
  PROVE  TypeOK /\ [Next]_vars => [Session(i)!Next]_(Session(i)!vars)
<1> SUFFICES ASSUME TypeOK, [Next]_vars PROVE [Session(i)!Next]_(Session(i)!vars)
  OBVIOUS
<1>1. CASE \/ Falter \/ Recover \/ UNCHANGED vars
           \/ \E d \in Devices : Plug(d) \/ Unplug(d)
  BY <1>1, BusUnseen DEF Session!vars
<1>2. ASSUME NEW j \in Instances,
             Signal(j) \/ Kill(j) \/ CreateFails(j) \/ Launch(j) \/ Step(j)
      PROVE  [Session(i)!Next]_(Session(i)!vars)
  <2>1. CASE j = i
    BY <1>2, <2>1, OwnShown
  <2>2. CASE j # i
    BY <1>2, <2>2, OthersUnseen DEF Session!vars
  <2>3. QED
    BY <2>1, <2>2
<1>3. QED
  BY <1>1, <1>2 DEF Next, Disturbance

(* Every instance is a run of the abstract daemon, whatever the devices,   *)
(* the other instances and the user do.                                    *)
THEOREM InstancesAreSessions == Spec => RunSessions
<1> SUFFICES ASSUME NEW i \in Instances PROVE Spec => Session(i)!Spec
  BY DEF RunSessions
<1>1. Init => Session(i)!Init
  BY DEF Init, Session!Init, Place
<1>2. TypeOK /\ [Next]_vars => [Session(i)!Next]_(Session(i)!vars)
  BY SessionShown
<1>3. QED
  BY <1>1, <1>2, TypeCorrect, PTL DEF Spec, Session!Spec
=============================================================================
