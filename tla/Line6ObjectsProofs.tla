-------------------------- MODULE Line6ObjectsProofs --------------------------
(***************************************************************************)
(* For any models, host threads and strings: the references of the name    *)
(* that DeviceNameCopy hands out are counted exactly, a Data call stays    *)
(* within its caller's buffer, and a sweep of Size and Data over every     *)
(* object finds them in agreement except where the device moved between    *)
(* the two calls; the objects' owners and owned objects agree; the cached  *)
(* name is that of the abstract name service.                              *)
(***************************************************************************)
EXTENDS Line6Objects, FiniteSetTheorems, TLAPS

CallType == [pc : {"none", "read", "holds"}, buf : Texts, result : Strings \cup {None}]

(* TypeOK, and the fields of item.                                         *)
Types ==
  /\ TypeOK
  /\ item = [pc |-> item.pc, of |-> item.of, size |-> item.size,
             first |-> item.first, problems |-> item.problems]

(* Who may hold a string, and when the sweep is inside DeviceNameCopy.     *)
CallInv ==
  /\ \A t \in Threads : call[t].pc = "holds" => call[t].result \in Strings
  /\ call[Sweep].pc = "none" \/ call[Sweep].pc = "read"
  /\ call[Sweep].pc = "read" => item.pc \in {"data", "again"} /\ AsksName(item.of)
  /\ item.pc = "again" /\ AsksName(item.of) => item.first.data \in Strings

NameInv == Types /\ CallInv /\ NameCounted

(* The holders besides the cache.                                          *)
Callers(s) ==
  {t \in Threads : call[t].pc = "holds" /\ call[t].result = s}
    \cup {x \in {Sweep} : item.pc = "again" /\ AsksName(item.of) /\ item.first.data = s}

(* The holders once s is cached.                                           *)
Kept(s, x) == Callers(x) \cup {y \in {Cache} : s = x}

-----------------------------------------------------------------------------
LEMMA Finite ==
  \A x : /\ IsFiniteSet(Holders(x)) /\ Cardinality(Holders(x)) \in Nat
         /\ IsFiniteSet(Callers(x)) /\ Cardinality(Callers(x)) \in Nat
         /\ \A s : IsFiniteSet(Kept(s, x)) /\ Cardinality(Kept(s, x)) \in Nat
<1> DEFINE Pool == Threads \cup {Sweep, Cache}
<1>1. IsFiniteSet(Pool)
  <2>1. IsFiniteSet({Sweep}) /\ IsFiniteSet({Cache}) /\ IsFiniteSet(Threads)
    BY ObjectsAssumption, FS_Singleton
  <2>2. Pool = Threads \cup ({Sweep} \cup {Cache})
    OBVIOUS
  <2>3. QED
    BY <2>1, <2>2, FS_Union
<1> SUFFICES ASSUME NEW x
             PROVE  /\ IsFiniteSet(Holders(x)) /\ Cardinality(Holders(x)) \in Nat
                    /\ IsFiniteSet(Callers(x)) /\ Cardinality(Callers(x)) \in Nat
                    /\ \A s : IsFiniteSet(Kept(s, x)) /\ Cardinality(Kept(s, x)) \in Nat
  OBVIOUS
<1>2. Holders(x) \subseteq Pool /\ Callers(x) \subseteq Pool /\ \A s : Kept(s, x) \subseteq Pool
  BY DEF Holders, Callers, Kept
<1>3. \A S : S \subseteq Pool => IsFiniteSet(S) /\ Cardinality(S) \in Nat
  BY <1>1, FS_Subset, FS_CardinalityType
<1>4. QED
  BY <1>2, <1>3

LEMMA Distinct == Sweep # Cache /\ Sweep \notin Threads /\ Cache \notin Threads
  BY ObjectsAssumption DEF Sweep, Cache

(* The cache's part in the holders.                                        *)
LEMMA CacheHolds ==
  \A x : Holders(x) = Kept(gCachedName, x) /\ Cache \notin Callers(x)
  BY Distinct DEF Holders, Kept, Callers

-----------------------------------------------------------------------------
(* The critical section: once s is cached, the counts it leaves are those  *)
(* of the holders, and one more of s for the caller.                       *)
LEMMA Caching ==
  ASSUME NameInv, NEW t \in Threads \cup {Sweep}, NEW s \in Strings, Caches(t, s)
  PROVE  /\ Counted(t, s) \in [Strings -> Nat]
         /\ \A x \in Strings :
              Counted(t, s)[x] = Cardinality(Kept(s, x)) + (IF x = s THEN 1 ELSE 0)
         /\ ~Hit(t) => Callers(s) = {}
<1>0. /\ refs \in [Strings -> Nat] /\ gCachedName \in Strings \cup {None} /\ None \notin Strings
      /\ \A x \in Strings : refs[x] = Cardinality(Holders(x))
  BY ObjectsAssumption DEF NameInv, Types, TypeOK, NameCounted
<1>1. s \in Results(t)
  BY DEF Caches
<1>2. CASE Hit(t)
  <2>1. s = gCachedName /\ AfterRelease(t) = refs
    BY <1>1, <1>2 DEF Results, AfterRelease
  <2>2. Counted(t, s) = [refs EXCEPT ![s] = refs[s] + 1]
    BY <1>2, <2>1 DEF Counted
  <2>3. \A x \in Strings : Kept(s, x) = Holders(x)
    BY <2>1, CacheHolds
  <2>4. QED
    BY <1>0, <1>2, <2>2, <2>3
<1>3. CASE ~Hit(t)
  <2>1. /\ AfterRelease(t) \in [Strings -> Nat]
        /\ \A x \in Strings : AfterRelease(t)[x] = Cardinality(Callers(x))
    <3>1. CASE gCachedName = None
      <4>1. \A x \in Strings : Holders(x) = Callers(x)
        BY <1>0, <3>1, CacheHolds DEF Kept
      <4>2. QED
        BY <1>0, <3>1, <4>1 DEF AfterRelease
    <3>2. CASE gCachedName # None
      <4>1. gCachedName \in Strings
        BY <1>0, <3>2
      <4>2. AfterRelease(t) = [refs EXCEPT ![gCachedName] = refs[gCachedName] - 1]
        BY <1>3, <3>2 DEF AfterRelease, Dropped
      <4>3. \A x \in Strings : x # gCachedName => Holders(x) = Callers(x)
        BY CacheHolds DEF Kept
      <4>4. Callers(gCachedName) = Holders(gCachedName) \ {Cache} /\ Cache \in Holders(gCachedName)
        BY CacheHolds DEF Kept
      <4>5. Cardinality(Callers(gCachedName)) = Cardinality(Holders(gCachedName)) - 1
        BY <4>4, Finite, FS_RemoveElement
      <4>6. refs[gCachedName] - 1 \in Nat
        BY <1>0, <4>1, <4>5, Finite
      <4>7. QED
        BY <1>0, <4>1, <4>2, <4>3, <4>5, <4>6
    <3>3. QED
      BY <3>1, <3>2
  <2>2. AfterRelease(t)[s] = 0
    BY <1>1, <1>3 DEF Results
  <2>3. Callers(s) = {}
    BY <2>1, <2>2, Finite, FS_EmptySet
  <2>4. Kept(s, s) = {Cache} /\ Cardinality({Cache}) = 1
    BY <2>3, FS_Singleton DEF Kept
  <2>5. \A x \in Strings : x # s => Kept(s, x) = Callers(x)
    BY DEF Kept
  <2>6. Counted(t, s) = [AfterRelease(t) EXCEPT ![s] = 2]
    BY <1>3 DEF Counted
  <2>7. \A x \in Strings : x # s => Counted(t, s)[x] = Cardinality(Kept(s, x))
    BY <2>1, <2>5, <2>6
  <2>8. Counted(t, s)[s] = Cardinality(Kept(s, s)) + 1
    BY <2>1, <2>4, <2>6
  <2>9. Counted(t, s) \in [Strings -> Nat]
    BY <2>1, <2>6
  <2>10. \A x \in Strings : Cardinality(Kept(s, x)) \in Nat
    BY Finite
  <2>11. QED
    BY <2>3, <2>7, <2>8, <2>9, <2>10
<1>4. QED
  BY <1>2, <1>3

(* Where no reference is given or taken.                                   *)
LEMMA SameHolders ==
  ASSUME NameInv, UNCHANGED <<gCachedName, refs>>, \A s : Callers(s)' = Callers(s)
  PROVE  NameCounted'
<1>1. \A s : Holders(s)' = Holders(s)
  BY DEF Holders, Callers
<1>2. QED
  BY <1>1 DEF NameInv, NameCounted

-----------------------------------------------------------------------------
(* Types.                                                                  *)

LEMMA TextTypes ==
  ASSUME TypeOK
  PROVE  /\ NameTexts \subseteq Texts
         /\ NoCall \in CallType
<1>1. header.name \in Models \cup {Blank} /\ header.next \in Models \cup {None}
  BY DEF TypeOK
<1>2. NameTexts \subseteq Texts
  BY <1>1 DEF NameTexts, Texts, Named
<1>3. NoCall \in CallType
  BY DEF NoCall, CallType, Texts
<1>4. QED
  BY <1>2, <1>3

LEMMA NameInit == Init => NameInv
<1> SUFFICES ASSUME Init PROVE NameInv
  OBVIOUS
<1>1. NoCall \in CallType /\ NoCall.pc = "none"
  BY DEF NoCall, CallType, Texts
<1>2. NoItem.of \in Addresses /\ NoItem.pc = "idle"
  BY DEF NoItem, Addresses, Objects, Selectors, Scopes, Elements, Qualifiers, PlugIn, Main
<1>3. TypeOK
  <2>1. header = [ready |-> FALSE, channels |-> 0, name |-> Blank, next |-> None]
        /\ 0 \in 0 .. MaxChannels
    BY DEF Init, MaxChannels
  <2>2. header \in [ready : BOOLEAN, channels : 0 .. MaxChannels,
                   name : Models \cup {Blank}, next : Models \cup {None}]
    BY <2>1
  <2>3. gShm \in BOOLEAN /\ gDevicePresent \in BOOLEAN /\ gIORunning \in BOOLEAN
    BY DEF Init
  <2>4. /\ gCachedName \in Strings \cup {None} /\ gCachedNameStr \in Texts
        /\ refs \in [Strings -> Nat] /\ disturbed = {}
    BY DEF Init, Texts
  <2>5. call \in [Threads \cup {Sweep} -> CallType] /\ item.of \in Addresses
    BY <1>1, <1>2 DEF Init
  <2>6. QED
    BY <2>2, <2>3, <2>4, <2>5 DEF TypeOK, CallType
<1>4. Types
  BY <1>3 DEF Types, Init, NoItem
<1>5. CallInv
  BY <1>1, <1>2 DEF CallInv, Init
<1>6. \A s \in Strings : Holders(s) = {}
  BY <1>1, <1>2, ObjectsAssumption DEF Init, Holders
<1>7. NameCounted
  BY <1>6, FS_EmptySet DEF Init, NameCounted
<1>8. QED
  BY <1>4, <1>5, <1>7 DEF NameInv

-----------------------------------------------------------------------------
(* The world leaves the names alone.                                       *)
LEMMA WorldStep == NameInv /\ World => NameInv'
<1> SUFFICES ASSUME NameInv, World PROVE NameInv'
  OBVIOUS
<1>0. TypeOK
  BY DEF NameInv, Types
<1>1. UNCHANGED nameVars /\ UNCHANGED item
  BY DEF World, PresenceChanges, RunningChanges, Attach, CreateHeader, CreateNamed, CreateChannels
<1>2. /\ gShm' \in BOOLEAN /\ gDevicePresent' \in BOOLEAN /\ gIORunning' \in BOOLEAN
      /\ header' \in [ready : BOOLEAN, channels : 0 .. MaxChannels,
                      name : Models \cup {Blank}, next : Models \cup {None}]
  <2>1. CASE PresenceChanges \/ RunningChanges \/ Attach
    BY <1>0, <2>1 DEF PresenceChanges, RunningChanges, Attach, TypeOK
  <2>2. CASE CreateHeader
    BY <1>0, <2>2 DEF CreateHeader, TypeOK
  <2>3. CASE CreateNamed
    <3>1. header' = [header EXCEPT !.name = header.next, !.next = None]
      BY <2>3 DEF CreateNamed
    <3>2. header.next \in Models
      BY <1>0, <2>3 DEF CreateNamed, TypeOK
    <3>3. QED
      BY <1>0, <2>3, <3>1, <3>2 DEF CreateNamed, TypeOK
  <2>4. ASSUME NEW m \in Models, CreateChannels(m)
        PROVE  /\ UNCHANGED <<gShm, gDevicePresent, gIORunning>>
               /\ header' \in [ready : BOOLEAN, channels : 0 .. MaxChannels,
                               name : Models \cup {Blank}, next : Models \cup {None}]
    <3>1. header' = [header EXCEPT !.channels = Channels[m], !.next = m]
      BY <2>4 DEF CreateChannels
    <3>2. Channels[m] \in 0 .. MaxChannels
      BY ObjectsAssumption DEF MaxChannels
    <3>3. QED
      BY <1>0, <2>4, <3>1, <3>2 DEF CreateChannels, TypeOK
  <2>5. QED
    BY <1>0, <2>1, <2>2, <2>3, <2>4 DEF World, TypeOK
<1>3. disturbed' \subseteq {"presence", "running", "channels", "name"}
  <2>1. disturbed \subseteq {"presence", "running", "channels", "name"}
    BY <1>0 DEF TypeOK
  <2>2. \A a : DependsOn(a) \subseteq {"presence", "running", "channels", "name"}
    BY DEF DependsOn
  <2>3. \/ disturbed' = disturbed
        \/ \E pieces : disturbed' = disturbed \cup (pieces \cap DependsOn(item.of))
    BY DEF World, PresenceChanges, RunningChanges, Attach, CreateHeader, CreateNamed,
           CreateChannels, Disturbs
  <2>4. QED
    BY <2>1, <2>2, <2>3
<1>4. Types'
  BY <1>0, <1>1, <1>2, <1>3 DEF NameInv, Types, TypeOK, nameVars
<1>5. CallInv'
  BY <1>1 DEF NameInv, CallInv, nameVars, AsksName
<1>6. NameCounted'
  <2>1. \A s : Callers(s)' = Callers(s)
    BY <1>1 DEF Callers, nameVars, AsksName
  <2>2. QED
    BY <1>1, <2>1, SameHolders DEF nameVars
<1>7. QED
  BY <1>4, <1>5, <1>6 DEF NameInv

-----------------------------------------------------------------------------
(* DeviceNameCopy of the other threads.                                    *)

LEMMA ReadStep ==
  ASSUME NameInv, NEW t \in Threads \cup {Sweep}, NameRead(t)
  PROVE  NameInv'
<1>0. TypeOK /\ call \in [Threads \cup {Sweep} -> CallType]
  BY DEF NameInv, Types, TypeOK, CallType
<1>1. PICK text \in NameTexts :
        call' = [call EXCEPT ![t] = [pc |-> "read", buf |-> text, result |-> None]]
  BY DEF NameRead
<1>2. text \in Texts
  BY <1>0, TextTypes
<1>4. [pc |-> "read", buf |-> text, result |-> None] \in CallType
  BY <1>2 DEF CallType
<1>5. call' \in [Threads \cup {Sweep} -> CallType]
  BY <1>0, <1>1, <1>4
<1>6. /\ call'[t].pc = "read" /\ call[t].pc = "none"
      /\ \A u \in (Threads \cup {Sweep}) \ {t} : call'[u] = call[u]
  BY <1>0, <1>1 DEF NameRead
<1>7. UNCHANGED <<gShm, gDevicePresent, gIORunning, header, gCachedName, gCachedNameStr,
                  refs, item, disturbed>>
  BY DEF NameRead, worldVars
<1>8. Types'
  BY <1>5, <1>7 DEF NameInv, Types, TypeOK, CallType
<1>9. CallInv'
  <2>1. \A u \in Threads : call'[u].pc = "holds" => call'[u].result \in Strings
    BY <1>6 DEF NameInv, CallInv
  <2>2. t = Sweep => item.pc \in {"data", "again"} /\ AsksName(item.of)
    BY DEF NameRead
  <2>3. QED
    BY <1>6, <1>7, <2>1, <2>2 DEF NameInv, CallInv, AsksName
<1>10. NameCounted'
  <2>1. \A s : Callers(s)' = Callers(s)
    BY <1>6, <1>7 DEF Callers, AsksName
  <2>2. QED
    BY <1>7, <2>1, SameHolders
<1>11. QED
  BY <1>8, <1>9, <1>10 DEF NameInv

LEMMA ReturnStep ==
  ASSUME NameInv, NEW t \in Threads \cup {Sweep}, NameReturns(t)
  PROVE  NameInv'
<1>0. /\ TypeOK /\ call \in [Threads \cup {Sweep} -> CallType]
      /\ t \in Threads /\ t # Sweep /\ call[t].pc = "read"
  BY DEF NameInv, Types, TypeOK, CallType, NameReturns
<1>1. PICK s \in Strings :
        /\ Caches(t, s)
        /\ refs' = Counted(t, s)
        /\ call' = [call EXCEPT ![t] = [pc |-> "holds", buf |-> Blank, result |-> s]]
  BY DEF NameReturns
<1>3. [pc |-> "holds", buf |-> Blank, result |-> s] \in CallType
  BY DEF CallType, Texts
<1>4. call' \in [Threads \cup {Sweep} -> CallType]
  BY <1>0, <1>1, <1>3
<1>5. /\ call'[t].pc = "holds" /\ call'[t].result = s
      /\ \A u \in (Threads \cup {Sweep}) \ {t} : call'[u] = call[u]
  BY <1>0, <1>1
<1>6. UNCHANGED <<gShm, gDevicePresent, gIORunning, header, item>>
  BY DEF NameReturns, worldVars
<1>7. gCachedName' = s /\ gCachedNameStr' \in Texts
  <2>1. call[t] \in CallType
    BY <1>0
  <2>2. QED
    BY <1>1, <2>1 DEF Caches, CallType
<1>8. disturbed' \subseteq {"presence", "running", "channels", "name"}
  <2>1. disturbed' \subseteq disturbed \cup {"name"}
    BY DEF NameReturns, Disturbs
  <2>2. QED
    BY <1>0, <2>1 DEF TypeOK
<1>9. Counted(t, s) \in [Strings -> Nat]
  BY <1>1, Caching
<1>10. Types'
  BY <1>0, <1>1, <1>4, <1>6, <1>7, <1>8, <1>9 DEF NameInv, Types, TypeOK, CallType
<1>11. CallInv'
  BY <1>0, <1>5, <1>6 DEF NameInv, CallInv, AsksName
<1>12. NameCounted'
  <2> SUFFICES ASSUME NEW x \in Strings PROVE refs'[x] = Cardinality(Holders(x)')
    BY DEF NameCounted
  <2>1. Holders(x)' = IF x = s THEN Kept(s, x) \cup {t} ELSE Kept(s, x)
    BY <1>0, <1>5, <1>6, <1>7 DEF Holders, Kept, Callers, AsksName
  <2>2. t \notin Kept(s, x)
    BY <1>0, Distinct DEF Kept, Callers
  <2>3. Cardinality(Kept(s, x) \cup {t}) = Cardinality(Kept(s, x)) + 1
    BY <2>2, Finite, FS_AddElement
  <2>4. refs'[x] = Cardinality(Kept(s, x)) + (IF x = s THEN 1 ELSE 0)
    BY <1>1, Caching
  <2>5. Cardinality(Kept(s, x)) \in Nat
    BY Finite
  <2>6. QED
    BY <2>1, <2>3, <2>4, <2>5
<1>13. QED
  BY <1>10, <1>11, <1>12 DEF NameInv

LEMMA ReleaseStep ==
  ASSUME NameInv, NEW t \in Threads \cup {Sweep}, NameReleased(t)
  PROVE  NameInv'
<1>0. /\ TypeOK /\ call \in [Threads \cup {Sweep} -> CallType] /\ refs \in [Strings -> Nat]
      /\ t \in Threads /\ t # Sweep /\ call[t].pc = "holds"
  BY DEF NameInv, Types, TypeOK, CallType, NameReleased, CallInv
<1> DEFINE s == call[t].result
<1>1. s \in Strings
  BY <1>0 DEF NameInv, CallInv
<1>2. NoCall \in CallType /\ NoCall.pc = "none"
  BY <1>0, TextTypes DEF NoCall
<1>3. call' \in [Threads \cup {Sweep} -> CallType]
  BY <1>0, <1>2 DEF NameReleased
<1>4. call'[t].pc = "none" /\ \A u \in (Threads \cup {Sweep}) \ {t} : call'[u] = call[u]
  BY <1>0, <1>2 DEF NameReleased
<1>5. UNCHANGED <<gShm, gDevicePresent, gIORunning, header, gCachedName, gCachedNameStr,
                  item, disturbed>>
  BY DEF NameReleased, worldVars
<1>6. t \in Callers(s) /\ t \in Holders(s)
  BY <1>0 DEF Callers, Holders
<1>7. refs' = [refs EXCEPT ![s] = refs[s] - 1]
  BY DEF NameReleased, Dropped
<1>8. Cardinality(Holders(s) \ {t}) = Cardinality(Holders(s)) - 1
  BY <1>6, Finite, FS_RemoveElement
<1>9. refs[s] = Cardinality(Holders(s)) /\ Cardinality(Holders(s) \ {t}) \in Nat
  <2>1. IsFiniteSet(Holders(s) \ {t})
    BY Finite, FS_RemoveElement
  <2>2. QED
    BY <1>1, <2>1, FS_CardinalityType DEF NameInv, NameCounted
<1>10. refs' \in [Strings -> Nat]
  BY <1>0, <1>1, <1>7, <1>8, <1>9
<1>11. Types'
  BY <1>3, <1>5, <1>10 DEF NameInv, Types, TypeOK, CallType
<1>12. CallInv'
  BY <1>0, <1>4, <1>5 DEF NameInv, CallInv, AsksName
<1>13. NameCounted'
  <2> SUFFICES ASSUME NEW x \in Strings PROVE refs'[x] = Cardinality(Holders(x)')
    BY DEF NameCounted
  <2>1. Holders(x)' = IF x = s THEN Holders(x) \ {t} ELSE Holders(x)
    BY <1>0, <1>4, <1>5, Distinct DEF Holders, AsksName
  <2>2. QED
    BY <1>0, <1>1, <1>7, <1>8, <1>9, <2>1 DEF NameInv, NameCounted
<1>14. QED
  BY <1>11, <1>12, <1>13 DEF NameInv

-----------------------------------------------------------------------------
(* The sweep.                                                              *)

LEMMA OverItem ==
  ASSUME NameInv, NEW problems, Over(problems)
  PROVE  /\ item' = [pc |-> item'.pc, of |-> item'.of, size |-> item'.size,
                     first |-> item'.first, problems |-> item'.problems]
         /\ item'.pc = "idle" /\ item'.of \in Addresses
         /\ disturbed' \subseteq {"presence", "running", "channels", "name"}
<1>0. TypeOK /\ item = [pc |-> item.pc, of |-> item.of, size |-> item.size,
                        first |-> item.first, problems |-> item.problems]
  BY DEF NameInv, Types
<1>1. /\ NoItem.of \in Addresses /\ NoItem.pc = "idle"
      /\ NoItem = [pc |-> NoItem.pc, of |-> NoItem.of, size |-> NoItem.size,
                   first |-> NoItem.first, problems |-> NoItem.problems]
  BY DEF NoItem, Addresses, Objects, Selectors, Scopes, Elements, Qualifiers, PlugIn, Main
<1>2. CASE problems = {}
  BY <1>1, <1>2 DEF Over
<1>3. CASE problems # {}
  <2>1. item' = [item EXCEPT !.pc = "idle", !.problems = problems] /\ disturbed' = disturbed
    BY <1>3 DEF Over
  <2>2. item' = [pc |-> "idle", of |-> item.of, size |-> item.size,
                 first |-> item.first, problems |-> problems]
    BY <1>0, <2>1
  <2>3. QED
    BY <1>0, <2>1, <2>2 DEF TypeOK
<1>4. QED
  BY <1>2, <1>3

LEMMA FirstItem ==
  ASSUME NameInv, NEW d, item' = [item EXCEPT !.pc = "again", !.first = d]
  PROVE  item' = [pc |-> "again", of |-> item.of, size |-> item.size,
                  first |-> d, problems |-> item.problems]
<1>1. item = [pc |-> item.pc, of |-> item.of, size |-> item.size,
              first |-> item.first, problems |-> item.problems]
  BY DEF NameInv, Types
<1>2. QED
  BY <1>1

(* The sweep's steps that do not ask for the name: it holds no string      *)
(* before nor after.                                                       *)
LEMMA QuietStep ==
  ASSUME NameInv, AsksSizeAgain \/ AsksData \/ \E a \in Addresses : Begin(a)
  PROVE  /\ NameInv'
         /\ UNCHANGED <<gCachedName, gCachedNameStr, call>>
         /\ ~(item.pc = "again" /\ AsksName(item.of))
         /\ ~(item'.pc = "again" /\ AsksName(item'.of))
<1>0. TypeOK
  BY DEF NameInv, Types
<1>1. UNCHANGED <<gShm, gDevicePresent, gIORunning, header, gCachedName, gCachedNameStr, refs, call>>
  BY DEF AsksSizeAgain, AsksData, Begin, worldVars, nameVars
<1>2. /\ item' = [pc |-> item'.pc, of |-> item'.of, size |-> item'.size,
                  first |-> item'.first, problems |-> item'.problems]
      /\ item'.of \in Addresses /\ disturbed' \subseteq {"presence", "running", "channels", "name"}
      /\ ~(item'.pc = "again" /\ AsksName(item'.of))
      /\ ~(item.pc = "again" /\ AsksName(item.of))
      /\ call[Sweep].pc # "read"
  <2>1. ASSUME NEW a \in Addresses, Begin(a)
        PROVE  /\ item' = [pc |-> item'.pc, of |-> item'.of, size |-> item'.size,
                           first |-> item'.first, problems |-> item'.problems]
               /\ item'.of \in Addresses
               /\ disturbed' \subseteq {"presence", "running", "channels", "name"}
               /\ item'.pc # "again" /\ item.pc # "again" /\ call[Sweep].pc # "read"
    <3>1. item' = [pc |-> item'.pc, of |-> item'.of, size |-> item'.size,
                   first |-> item'.first, problems |-> item'.problems]
          /\ item'.of = a /\ item'.pc = "size again"
      <4>1. item' = [pc |-> "size again", of |-> a, size |-> Size(a),
                     first |-> Refused, problems |-> {}]
        BY <2>1 DEF Begin
      <4>2. QED
        BY <4>1
    <3>2. item.pc = "idle" /\ disturbed' \subseteq {"name"}
      BY <2>1 DEF Begin, Asking
    <3>3. call[Sweep].pc # "read"
      BY <3>2 DEF NameInv, CallInv
    <3>4. QED
      BY <2>1, <3>1, <3>2, <3>3
  <2>2. CASE AsksSizeAgain
    <3>1. item.pc = "size again"
      BY <2>2 DEF AsksSizeAgain
    <3>2. CASE item' = [item EXCEPT !.pc = "data"] /\ UNCHANGED disturbed
      <4>1. item' = [pc |-> "data", of |-> item.of, size |-> item.size,
                     first |-> item.first, problems |-> item.problems]
        BY <3>2 DEF NameInv, Types
      <4>2. QED
        BY <1>0, <3>1, <3>2, <4>1 DEF TypeOK, NameInv, CallInv
    <3>3. CASE Over({"size unstable"})
      BY <3>1, <3>3, OverItem DEF NameInv, CallInv
    <3>4. QED
      BY <2>2, <3>2, <3>3 DEF AsksSizeAgain
  <2>3. CASE AsksData
    <3> DEFINE d == Data(item.of, item.size)
    <3>1. ~AsksName(item.of) /\ DataReturns(d)
      BY <2>3 DEF AsksData
    <3>2. CASE item' = [item EXCEPT !.pc = "again", !.first = d] /\ UNCHANGED disturbed
      <4>1. item' = [pc |-> "again", of |-> item.of, size |-> item.size,
                     first |-> d, problems |-> item.problems]
        BY <3>2, FirstItem
      <4>2. QED
        BY <1>0, <3>1, <3>2, <4>1 DEF TypeOK, NameInv, CallInv
    <3>3. CASE Over(Problems(item.first, d))
      BY <3>1, <3>3, OverItem DEF NameInv, CallInv
    <3>4. QED
      BY <3>1, <3>2, <3>3 DEF DataReturns
  <2>4. QED
    BY <2>1, <2>2, <2>3
<1>3. Types'
  BY <1>0, <1>1, <1>2 DEF Types, TypeOK
<1>4. CallInv'
  BY <1>1, <1>2 DEF NameInv, CallInv, AsksName
<1>5. NameCounted'
  <2>1. \A s : Callers(s)' = Callers(s)
    BY <1>1, <1>2 DEF Callers, AsksName
  <2>2. QED
    BY <1>1, <2>1, SameHolders
<1>6. QED
  BY <1>1, <1>2, <1>3, <1>4, <1>5 DEF NameInv

(* The sweep asks for the name: it holds the first string until it has     *)
(* the second.                                                             *)
LEMMA NameDataStep == NameInv /\ AsksNameData => NameInv'
<1> SUFFICES ASSUME NameInv, AsksNameData PROVE NameInv'
  OBVIOUS
<1>0. /\ TypeOK /\ call \in [Threads \cup {Sweep} -> CallType] /\ call[Sweep].pc = "read"
      /\ item.pc \in {"data", "again"} /\ AsksName(item.of)
  BY DEF NameInv, Types, TypeOK, CallType, AsksNameData, CallInv
<1>1. PICK s \in Strings :
        /\ Caches(Sweep, s)
        /\ DataReturns(Answer(PointerSize, s))
        /\ refs' = IF item.pc = "data" THEN Counted(Sweep, s)
                   ELSE Dropped(Dropped(Counted(Sweep, s), s), item.first.data)
  BY DEF AsksNameData
<1>2. NoCall \in CallType /\ NoCall.pc = "none"
  BY <1>0, TextTypes DEF NoCall
<1>3. /\ call' \in [Threads \cup {Sweep} -> CallType]
      /\ call'[Sweep].pc = "none" /\ \A t \in Threads : call'[t] = call[t]
  BY <1>0, <1>2, Distinct DEF AsksNameData
<1>4. UNCHANGED <<gShm, gDevicePresent, gIORunning, header>>
  BY DEF AsksNameData, worldVars
<1>5. gCachedName' = s /\ gCachedNameStr' \in Texts
  <2>1. call[Sweep] \in CallType
    BY <1>0
  <2>2. QED
    BY <1>1, <2>1 DEF Caches, CallType
<1>6. /\ Counted(Sweep, s) \in [Strings -> Nat]
      /\ \A x \in Strings :
           Counted(Sweep, s)[x] = Cardinality(Kept(s, x)) + (IF x = s THEN 1 ELSE 0)
  BY <1>1, Caching
<1>7. CASE item.pc = "data"
  <2>1. item' = [item EXCEPT !.pc = "again", !.first = Answer(PointerSize, s)] /\ UNCHANGED disturbed
    BY <1>1, <1>7 DEF DataReturns
  <2>2. item' = [pc |-> "again", of |-> item.of, size |-> item.size,
                 first |-> Answer(PointerSize, s), problems |-> item.problems]
    BY <2>1, FirstItem
  <2>3. item'.first.data = s
    BY <2>2 DEF Answer
  <2>4. refs' = Counted(Sweep, s)
    BY <1>1, <1>7
  <2>5. Types'
    BY <1>0, <1>3, <1>4, <1>5, <1>6, <2>1, <2>2, <2>4 DEF Types, TypeOK, CallType
  <2>6. CallInv'
    BY <1>3, <2>2, <2>3 DEF NameInv, CallInv, AsksName
  <2>7. NameCounted'
    <3> SUFFICES ASSUME NEW x \in Strings PROVE refs'[x] = Cardinality(Holders(x)')
      BY DEF NameCounted
    <3>1. AsksName(item.of)'
      BY <1>0, <2>2 DEF AsksName
    <3>2. Holders(x)' = IF x = s THEN Kept(s, x) \cup {Sweep} ELSE Kept(s, x)
      BY <1>3, <1>5, <1>7, <2>2, <2>3, <3>1 DEF Holders, Kept, Callers
    <3>3. Sweep \notin Kept(s, x)
      BY <1>7, Distinct DEF Kept, Callers
    <3>4. Cardinality(Kept(s, x) \cup {Sweep}) = Cardinality(Kept(s, x)) + 1
      BY <3>3, Finite, FS_AddElement
    <3>5. Cardinality(Kept(s, x)) \in Nat
      BY Finite
    <3>6. QED
      BY <1>6, <2>4, <3>2, <3>4, <3>5
  <2>8. QED
    BY <2>5, <2>6, <2>7 DEF NameInv
<1>8. CASE item.pc = "again"
  <2> DEFINE f == item.first.data
  <2>1. PICK problems : Over(problems)
    BY <1>1, <1>8 DEF DataReturns
  <2>2. /\ item' = [pc |-> item'.pc, of |-> item'.of, size |-> item'.size,
                    first |-> item'.first, problems |-> item'.problems]
        /\ item'.pc = "idle" /\ item'.of \in Addresses
        /\ disturbed' \subseteq {"presence", "running", "channels", "name"}
    BY <2>1, OverItem
  <2>3. f \in Strings
    BY <1>0, <1>8 DEF NameInv, CallInv
  <2>4. /\ Dropped(Counted(Sweep, s), s) \in [Strings -> Nat]
        /\ \A x \in Strings : Dropped(Counted(Sweep, s), s)[x] = Cardinality(Kept(s, x))
    <3>1. Dropped(Counted(Sweep, s), s) =
            [Counted(Sweep, s) EXCEPT ![s] = Counted(Sweep, s)[s] - 1]
      BY DEF Dropped
    <3>2. \A x \in Strings : Cardinality(Kept(s, x)) \in Nat
      BY Finite
    <3>3. QED
      BY <1>6, <3>1, <3>2
  <2>5. /\ Sweep \in Kept(s, f)
        /\ Cardinality(Kept(s, f) \ {Sweep}) = Cardinality(Kept(s, f)) - 1
        /\ Cardinality(Kept(s, f) \ {Sweep}) \in Nat
    <3>1. Sweep \in Kept(s, f)
      BY <1>0, <1>8 DEF Kept, Callers
    <3>2. QED
      BY <3>1, Finite, FS_RemoveElement, FS_CardinalityType
  <2>6. refs' = [Dropped(Counted(Sweep, s), s) EXCEPT ![f] = Dropped(Counted(Sweep, s), s)[f] - 1]
    BY <1>1, <1>8 DEF Dropped
  <2>7. refs' \in [Strings -> Nat]
    BY <2>3, <2>4, <2>5, <2>6
  <2>8. Types'
    BY <1>0, <1>3, <1>4, <1>5, <2>2, <2>7 DEF Types, TypeOK, CallType
  <2>9. CallInv'
    BY <1>3, <2>2 DEF NameInv, CallInv
  <2>10. NameCounted'
    <3> SUFFICES ASSUME NEW x \in Strings PROVE refs'[x] = Cardinality(Holders(x)')
      BY DEF NameCounted
    <3>1. Holders(x)' = Kept(s, x) \ {Sweep}
      BY <1>3, <1>5, <2>2, Distinct DEF Holders, Kept, Callers
    <3>2. x # f => Kept(s, x) \ {Sweep} = Kept(s, x)
      BY Distinct DEF Kept, Callers
    <3>3. QED
      BY <2>3, <2>4, <2>5, <2>6, <3>1, <3>2
  <2>11. QED
    BY <2>8, <2>9, <2>10 DEF NameInv
<1>9. QED
  BY <1>0, <1>7, <1>8

LEMMA NameStep == NameInv /\ [Next]_vars => NameInv'
<1>1. NameInv /\ UNCHANGED vars => NameInv'
  BY DEF NameInv, Types, TypeOK, CallInv, NameCounted, Holders, AsksName, vars, worldVars, nameVars
<1>2. NameInv /\ SweepNext => NameInv'
  BY QuietStep, NameDataStep DEF SweepNext
<1>3. NameInv /\ (\E t \in Threads \cup {Sweep} :
                   NameRead(t) \/ NameReturns(t) \/ NameReleased(t)) => NameInv'
  BY ReadStep, ReturnStep, ReleaseStep
<1>4. QED
  BY <1>1, <1>2, <1>3, WorldStep DEF Next

LEMMA NameInvariant == Spec => []NameInv
  BY NameInit, NameStep, PTL DEF Spec

-----------------------------------------------------------------------------
(* Every variable of the property interface has its type.                  *)
THEOREM TypeCorrect == Spec => []TypeOK
<1>1. NameInv => TypeOK
  BY DEF NameInv, Types
<1>2. QED
  BY <1>1, NameInvariant, PTL

(* The references of every string that DeviceNameCopy has created are      *)
(* those of the cache and of the callers, whichever thread replaces it.    *)
THEOREM NamesCounted == Spec => []NameCounted
<1>1. NameInv => NameCounted
  BY DEF NameInv
<1>2. QED
  BY <1>1, NameInvariant, PTL

-----------------------------------------------------------------------------
(* Buffers.                                                                *)

Lists(a) == a.obj = PlugIn /\ a.sel \in {"OwnedObjects", "DeviceList"}

(* What a Size call may have announced, now or before the device came or   *)
(* went.                                                                   *)
Announced(a, room) == room = Size(a) \/ (Lists(a) /\ room \in {0, UInt32Size})

(* A Data answer that is not an error stays within it.                     *)
Within(d, room) ==
  d.size = Unknown \/ (d.size \in Nat /\ room \in Nat /\ d.size <= room)

LEMMA PlugInFits ==
  ASSUME NEW a \in Addresses, NEW room, Announced(a, room), a.obj = PlugIn, a.elem = Main
  PROVE  Within(PlugInData(a.sel, a.q, room), room)
<1>1. Size(a) = PlugInSize(a.sel)
  BY DEF Size, PlugIn, Device, Stream, Main
<1>2. CASE a.sel \in {"OwnedObjects", "DeviceList"}
  <2>1. room \in {0, 4} /\ PlugInData(a.sel, a.q, room) = ListIfPresent(room)
    BY <1>1, <1>2 DEF Announced, PlugInSize, PlugInData, UInt32Size, Lists
  <2>2. QED
    BY <2>1 DEF Within, ListIfPresent, Answer, UInt32Size
<1>3. CASE a.sel \notin {"OwnedObjects", "DeviceList"}
  BY <1>1, <1>3 DEF Announced, Lists, PlugInSize, PlugInData, Within, Refused, Answer, UInt32Size,
                    PointerSize
<1>4. QED
  BY <1>2, <1>3

LEMMA DeviceFits ==
  ASSUME NEW a \in Addresses, NEW room, Announced(a, room), a.obj = Device, a.elem = Main
  PROVE  Within(DeviceData(a.sel, a.scope, room), room)
<1>1. room = DeviceSize(a.sel, a.scope)
  BY DEF Announced, Lists, Size, PlugIn, Device, Stream, Main
<1>2. CASE a.sel \in {"OwnedObjects", "Streams"}
  <2> DEFINE k == Cardinality(DeviceStreamList(a.scope))
  <2>1. room = k * UInt32Size /\ DeviceData(a.sel, a.scope, room) = StreamsThatFit(a.scope, room)
    BY <1>1, <1>2 DEF DeviceSize, DeviceData
  <2>2. k \in Nat
    <3>1. Cardinality({Stream}) = 1
      BY FS_Singleton, Zenon
    <3>2. Cardinality({}) = 0
      BY FS_EmptySet, Zenon
    <3>3. DeviceStreamList(a.scope) = {Stream} \/ DeviceStreamList(a.scope) = {}
      BY Zenon DEF DeviceStreamList
    <3>4. k = 1 \/ k = 0
      BY <3>1, <3>2, <3>3, Zenon
    <3>5. QED
      BY <3>4
  <2>3. StreamsThatFit(a.scope, room).size \in {0, UInt32Size * k}
    BY <2>1 DEF StreamsThatFit, Answer
  <2>4. QED
    BY <2>1, <2>2, <2>3 DEF Within, UInt32Size
<1>3. CASE a.sel \notin {"OwnedObjects", "Streams"}
  BY <1>1, <1>3 DEF DeviceSize, DeviceData, Within, Refused, Answer, UInt32Size, PointerSize,
                    Float64Size, ValueRangeSize, ListHeaderSize, BufferSize
<1>4. QED
  BY <1>2, <1>3

LEMMA StreamFits ==
  ASSUME NEW a \in Addresses, NEW room, Announced(a, room), a.obj = Stream, a.elem = Main
  PROVE  Within(StreamData(a.sel), room)
<1>1. room = StreamSize(a.sel)
  BY DEF Announced, Lists, Size, PlugIn, Device, Stream, Main
<1>2. QED
  BY <1>1 DEF StreamSize, StreamData, Within, Refused, Answer, UInt32Size, FormatSize, RangedSize

LEMMA DataFits ==
  ASSUME NEW a \in Addresses, NEW room, Announced(a, room)
  PROVE  Within(Data(a, room), room)
<1>1. CASE a.elem # Main
  BY <1>1 DEF Data, Within, Refused, Answer
<1>2. CASE a.elem = Main
  <2>1. a.obj \in {PlugIn, Device, Stream}
    BY DEF Addresses, Objects
  <2>2. /\ a.obj = PlugIn => Data(a, room) = PlugInData(a.sel, a.q, room)
        /\ a.obj = Device => Data(a, room) = DeviceData(a.sel, a.scope, room)
        /\ a.obj = Stream => Data(a, room) = StreamData(a.sel)
    BY <1>2 DEF Data, PlugIn, Device, Stream, Main
  <2>3. QED
    BY <1>2, <2>1, <2>2, PlugInFits, DeviceFits, StreamFits
<1>3. QED
  BY <1>1, <1>2

(* A size that was announced stays announced whatever the world does.      *)
LEMMA StaysAnnounced ==
  ASSUME NEW a \in Addresses, NEW room, Announced(a, room)
  PROVE  room = Size(a)' \/ (Lists(a) /\ room \in {0, UInt32Size})
<1>1. CASE Lists(a) /\ a.elem = Main
  <2>1. Size(a) \in {0, UInt32Size}
    BY <1>1 DEF Size, PlugInSize, Lists, PlugIn, Device, Stream, Main
  <2>2. QED
    BY <1>1, <2>1 DEF Announced, Lists
<1>2. CASE ~(Lists(a) /\ a.elem = Main)
  <2>1. Size(a)' = Size(a)
    BY <1>2 DEF Size, PlugInSize, DeviceSize, StreamSize, DeviceStreamList, Lists
  <2>2. QED
    BY <2>1 DEF Announced, Lists
<1>3. QED
  BY <1>1, <1>2

(* What was announced for the item, and what the first answer took of it.  *)
BufferInv ==
  /\ item.pc # "idle" => Announced(item.of, item.size)
  /\ item.pc = "again" => Within(item.first, item.size)
  /\ WithinBuffer

LEMMA ItemKept ==
  ASSUME NameInv, BufferInv, item' = item
  PROVE  BufferInv'
<1>1. item.of \in Addresses
  BY DEF NameInv, Types, TypeOK
<1>2. item.pc # "idle" => Announced(item.of, item.size)'
  BY <1>1, StaysAnnounced DEF BufferInv, Announced, Lists
<1>3. QED
  BY <1>2 DEF BufferInv, Within, WithinBuffer

LEMMA OverKeeps ==
  ASSUME NameInv, NEW problems, Over(problems), "overrun" \notin problems
  PROVE  BufferInv'
<1>1. item'.pc = "idle"
  BY OverItem
<1>2. "overrun" \notin item'.problems
  <2>1. CASE problems = {}
    BY <2>1 DEF Over, NoItem
  <2>2. CASE problems # {}
    <3>1. item' = [item EXCEPT !.pc = "idle", !.problems = problems]
      BY <2>2 DEF Over
    <3>2. item'.problems = problems
      BY <3>1 DEF NameInv, Types
    <3>3. QED
      BY <3>2
  <2>3. QED
    BY <2>1, <2>2
<1>3. QED
  BY <1>1, <1>2 DEF BufferInv, WithinBuffer

LEMMA DataKeeps ==
  ASSUME NameInv, BufferInv, NEW d, DataReturns(d), Within(d, item.size)
  PROVE  BufferInv'
<1>1. item.of \in Addresses
  BY DEF NameInv, Types, TypeOK
<1>2. CASE item.pc = "data" /\ item' = [item EXCEPT !.pc = "again", !.first = d]
  <2>1. item' = [pc |-> "again", of |-> item.of, size |-> item.size,
                 first |-> d, problems |-> item.problems]
    BY <1>2, FirstItem
  <2>2. Announced(item.of, item.size)
    BY <1>2 DEF BufferInv
  <2>3. Announced(item.of, item.size)'
    BY <1>1, <2>1, <2>2, StaysAnnounced DEF Announced, Lists
  <2>4. QED
    BY <2>1, <2>3 DEF BufferInv, Within, WithinBuffer
<1>3. CASE item.pc = "again" /\ Over(Problems(item.first, d))
  <2>1. Within(item.first, item.size)
    BY <1>3 DEF BufferInv
  <2>2. "overrun" \notin Problems(item.first, d)
    <3>1. CASE Unknown \in {item.first.size, d.size}
      BY <3>1 DEF Problems
    <3>2. CASE Unknown \notin {item.first.size, d.size}
      <4>1. /\ item.first.size \in Nat /\ d.size \in Nat /\ item.size \in Nat
            /\ item.first.size <= item.size /\ d.size <= item.size
        BY <2>1, <3>2 DEF Within
      <4>2. QED
        BY <3>2, <4>1 DEF Problems
    <3>3. QED
      BY <3>1, <3>2
  <2>3. QED
    BY <1>3, <2>2, OverKeeps
<1>4. QED
  BY <1>2, <1>3 DEF DataReturns

LEMMA BufferStep == NameInv /\ BufferInv /\ [Next]_vars => BufferInv'
<1> SUFFICES ASSUME NameInv, BufferInv, [Next]_vars PROVE BufferInv'
  OBVIOUS
<1>0. item.of \in Addresses
  BY DEF NameInv, Types, TypeOK
<1>1. CASE UNCHANGED item
  BY <1>1, ItemKept
<1>2. ASSUME NEW a \in Addresses, Begin(a) PROVE BufferInv'
  <2>1. item' = [pc |-> "size again", of |-> a, size |-> Size(a),
                 first |-> Refused, problems |-> {}]
    BY <1>2 DEF Begin
  <2>2. Announced(a, Size(a))
    BY DEF Announced
  <2>3. Announced(item.of, item.size)'
    BY <1>2, <2>1, <2>2, StaysAnnounced DEF Announced, Lists
  <2>4. QED
    BY <2>1, <2>3 DEF BufferInv, WithinBuffer
<1>3. CASE AsksSizeAgain
  <2>1. CASE Over({"size unstable"})
    BY <2>1, OverKeeps
  <2>2. CASE item.pc = "size again" /\ item' = [item EXCEPT !.pc = "data"]
    <3>1. item' = [pc |-> "data", of |-> item.of, size |-> item.size,
                   first |-> item.first, problems |-> item.problems]
      BY <2>2 DEF NameInv, Types
    <3>2. Announced(item.of, item.size)
      BY <2>2 DEF BufferInv
    <3>3. Announced(item.of, item.size)'
      BY <1>0, <3>1, <3>2, StaysAnnounced DEF Announced, Lists
    <3>4. QED
      BY <3>1, <3>3 DEF BufferInv, WithinBuffer
  <2>3. QED
    BY <1>3, <2>1, <2>2 DEF AsksSizeAgain
<1>4. CASE AsksData
  <2>1. DataReturns(Data(item.of, item.size)) /\ item.pc # "idle"
    BY <1>4 DEF AsksData, DataReturns
  <2>2. Announced(item.of, item.size)
    BY <2>1 DEF BufferInv
  <2>3. QED
    BY <1>0, <2>1, <2>2, DataFits, DataKeeps
<1>5. CASE AsksNameData
  <2>1. PICK s \in Strings : DataReturns(Answer(PointerSize, s))
    BY <1>5 DEF AsksNameData
  <2>2. item.pc # "idle" /\ AsksName(item.of)
    BY <1>5 DEF AsksNameData, NameInv, CallInv
  <2>3. item.size = PointerSize
    BY <2>2 DEF BufferInv, Announced, AsksName, Lists, Size, DeviceSize, PlugIn, Device, Stream, Main
  <2>4. Within(Answer(PointerSize, s), item.size)
    BY <2>3 DEF Within, Answer, PointerSize
  <2>5. QED
    BY <2>1, <2>4, DataKeeps
<1>6. World \/ (\E t \in Threads \cup {Sweep} : NameRead(t) \/ NameReturns(t) \/ NameReleased(t))
        => UNCHANGED item
  BY DEF World, PresenceChanges, RunningChanges, Attach, CreateHeader, CreateNamed,
         CreateChannels, NameRead, NameReturns, NameReleased
<1>7. UNCHANGED vars => UNCHANGED item
  BY DEF vars
<1>8. QED
  BY <1>1, <1>2, <1>3, <1>4, <1>5, <1>6, <1>7 DEF Next, SweepNext

(* A Data call stores no more than the Size call before it announced,      *)
(* whatever has changed in between.                                        *)
THEOREM BuffersKept == Spec => []WithinBuffer
<1>1. Init => BufferInv
  BY DEF Init, BufferInv, WithinBuffer, NoItem
<1>2. BufferInv => WithinBuffer
  BY DEF BufferInv
<1>3. QED
  BY <1>1, <1>2, BufferStep, NameInvariant, PTL DEF Spec

-----------------------------------------------------------------------------
(* The sweep's problems.                                                   *)

LEMMA PlugInExact ==
  ASSUME NEW a \in Addresses, a.obj = PlugIn, a.elem = Main, Size(a) # Unknown
  PROVE  /\ PlugInData(a.sel, a.q, Size(a)).size = Size(a)
         /\ \A room : PlugInData(a.sel, a.q, room).size # Unknown
<1>1. Size(a) = PlugInSize(a.sel)
  BY DEF Size, PlugIn, Device, Stream, Main
<1>2. CASE a.sel \in {"OwnedObjects", "DeviceList"}
  <2>1. \A room : PlugInData(a.sel, a.q, room) = ListIfPresent(room)
    BY <1>2 DEF PlugInData
  <2>2. Size(a) = IF gDevicePresent THEN 4 ELSE 0
    BY <1>1, <1>2 DEF PlugInSize, UInt32Size
  <2>3. QED
    BY <2>1, <2>2 DEF ListIfPresent, Answer, UInt32Size, Unknown
<1>3. CASE a.sel \notin {"OwnedObjects", "DeviceList"}
  BY <1>1, <1>3 DEF PlugInSize, PlugInData, Refused, Answer, UInt32Size, PointerSize, Unknown
<1>4. QED
  BY <1>2, <1>3

LEMMA DeviceExact ==
  ASSUME NEW a \in Addresses, a.obj = Device, a.elem = Main, ~AsksName(a), Size(a) # Unknown
  PROVE  /\ DeviceData(a.sel, a.scope, Size(a)).size = Size(a)
         /\ \A room : DeviceData(a.sel, a.scope, room).size # Unknown
<1>1. Size(a) = DeviceSize(a.sel, a.scope) /\ a.sel # "Name"
  BY DEF Size, PlugIn, Device, Stream, Main, AsksName
<1>2. CASE a.sel \in {"OwnedObjects", "Streams"}
  <2> DEFINE k == Cardinality(DeviceStreamList(a.scope))
  <2>1. /\ Size(a) = k * 4
        /\ \A room : DeviceData(a.sel, a.scope, room) = StreamsThatFit(a.scope, room)
    BY <1>1, <1>2 DEF DeviceSize, DeviceData, UInt32Size
  <2>2. k \in {0, 1}
    BY FS_Singleton, FS_EmptySet DEF DeviceStreamList
  <2>3. \A room : StreamsThatFit(a.scope, room).size = IF room >= 4 * k THEN 4 * k ELSE 0
    BY DEF StreamsThatFit, Answer, UInt32Size
  <2>4. QED
    BY <2>1, <2>2, <2>3 DEF Unknown
<1>3. CASE a.sel \notin {"OwnedObjects", "Streams"}
  BY <1>1, <1>3 DEF DeviceSize, DeviceData, Refused, Answer, UInt32Size, PointerSize,
                    Float64Size, ValueRangeSize, ListHeaderSize, BufferSize, Unknown
<1>4. QED
  BY <1>2, <1>3

LEMMA StreamExact ==
  ASSUME NEW a \in Addresses, a.obj = Stream, a.elem = Main, Size(a) # Unknown
  PROVE  StreamData(a.sel).size = Size(a)
<1>1. Size(a) = StreamSize(a.sel)
  BY DEF Size, PlugIn, Device, Stream, Main
<1>2. QED
  BY <1>1 DEF StreamSize, StreamData, Refused, Answer, UInt32Size, FormatSize, RangedSize, Unknown

(* Size and Data agree, and Data never fails where Size does not.          *)
LEMMA DataExact ==
  ASSUME NEW a \in Addresses, ~AsksName(a), Size(a) # Unknown
  PROVE  /\ Data(a, Size(a)).size = Size(a)
         /\ \A room : Data(a, room).size # Unknown
<1>1. a.elem = Main
  BY DEF Size
<1>2. a.obj \in {PlugIn, Device, Stream}
  BY DEF Addresses, Objects
<1>3. \A room :
        /\ a.obj = PlugIn => Data(a, room) = PlugInData(a.sel, a.q, room)
        /\ a.obj = Device => Data(a, room) = DeviceData(a.sel, a.scope, room)
        /\ a.obj = Stream => Data(a, room) = StreamData(a.sel)
  BY <1>1 DEF Data, PlugIn, Device, Stream, Main
<1>4. CASE a.obj = PlugIn
  BY <1>1, <1>3, <1>4, PlugInExact
<1>5. CASE a.obj = Device
  BY <1>1, <1>3, <1>5, DeviceExact
<1>6. CASE a.obj = Stream
  BY <1>1, <1>3, <1>6, StreamExact
<1>7. QED
  BY <1>2, <1>4, <1>5, <1>6

(* An answer changes only with the piece of the world it depends on.       *)
LEMMA Frame ==
  ASSUME NEW a \in Addresses,
         "presence" \in DependsOn(a) => (gDevicePresent' <=> gDevicePresent),
         "running" \in DependsOn(a) => (gIORunning' <=> gIORunning),
         "channels" \in DependsOn(a) => DevChannels' = DevChannels
  PROVE  \A room : Data(a, room)' = Data(a, room)
<1> SUFFICES ASSUME NEW room PROVE Data(a, room)' = Data(a, room)
  OBVIOUS
<1>1. CASE a.elem # Main
  BY <1>1 DEF Data, Refused, Answer
<1>2. CASE a.elem = Main
  <2>0. a.obj \in {PlugIn, Device, Stream}
    BY DEF Addresses, Objects
  <2>1. CASE a.obj = PlugIn
    <3>1. /\ Data(a, room) = PlugInData(a.sel, a.q, room)
          /\ Data(a, room)' = PlugInData(a.sel, a.q, room)'
      BY <1>2, <2>1 DEF Data, PlugIn, Device, Stream, Main
    <3>2. /\ a.sel \in {"OwnedObjects", "DeviceList"} => (gDevicePresent' <=> gDevicePresent)
          /\ a.sel = "TranslateUID" /\ a.q = "our UID" => (gDevicePresent' <=> gDevicePresent)
      BY <2>1 DEF DependsOn, PlugIn, Device, Stream
    <3>3. CASE a.sel \in {"OwnedObjects", "DeviceList"}
      <4>1. /\ Data(a, room) = ListIfPresent(room)
            /\ Data(a, room)' = ListIfPresent(room)'
        BY <3>1, <3>3 DEF PlugInData
      <4>2. QED
        BY <3>2, <3>3, <4>1 DEF ListIfPresent, Answer
    <3>4. CASE a.sel = "TranslateUID"
      <4>1. /\ Data(a, room) = Answer(UInt32Size, IF gDevicePresent /\ a.q = "our UID" THEN {Device} ELSE {})
            /\ Data(a, room)' = Answer(UInt32Size, IF gDevicePresent' /\ a.q = "our UID" THEN {Device} ELSE {})
        BY <3>1, <3>4 DEF PlugInData, Answer
      <4>2. QED
        BY <3>2, <3>4, <4>1
    <3>5. CASE a.sel \notin {"OwnedObjects", "DeviceList", "TranslateUID"}
      BY <3>1, <3>5 DEF PlugInData, Answer, Refused
    <3>6. QED
      BY <3>3, <3>4, <3>5
  <2>2. CASE a.obj = Device
    <3>1. /\ Data(a, room) = DeviceData(a.sel, a.scope, room)
          /\ Data(a, room)' = DeviceData(a.sel, a.scope, room)'
      BY <1>2, <2>2 DEF Data, PlugIn, Device, Stream, Main
    <3>2. /\ a.sel = "IsRunning" => (gIORunning' <=> gIORunning)
          /\ a.sel = "StreamConfig" /\ a.scope # "output" => DevChannels' = DevChannels
      BY <2>2 DEF DependsOn, PlugIn, Device, Stream
    <3>3. QED
      BY <3>1, <3>2 DEF DeviceData, StreamsThatFit, DeviceStreamList, Answer, Refused
  <2>3. CASE a.obj = Stream
    <3>1. Data(a, room) = StreamData(a.sel) /\ Data(a, room)' = StreamData(a.sel)'
      BY <1>2, <2>3 DEF Data, PlugIn, Device, Stream, Main
    <3>2. a.sel \in {"VirtualFormat", "PhysicalFormat", "AvailVirtFmts", "AvailPhysFmts"}
            => DevChannels' = DevChannels
      BY <2>3 DEF DependsOn, PlugIn, Device, Stream
    <3>3. QED
      BY <3>1, <3>2 DEF StreamData, FillASBD, Answer, Refused
  <2>4. QED
    BY <2>0, <2>1, <2>2, <2>3
<1>3. QED
  BY <1>1, <1>2

LEMMA SizeFrame ==
  ASSUME NEW a \in Addresses
  PROVE  /\ (Lists(a) => (gDevicePresent' <=> gDevicePresent)) => Size(a)' = Size(a)
         /\ Size(a) # Unknown => Size(a)' # Unknown
<1>1. CASE Lists(a) /\ a.elem = Main
  <2>1. /\ Size(a) = IF gDevicePresent THEN 4 ELSE 0
        /\ Size(a)' = IF gDevicePresent' THEN 4 ELSE 0
    BY <1>1 DEF Size, PlugInSize, Lists, PlugIn, Device, Stream, Main, UInt32Size
  <2>2. QED
    BY <1>1, <2>1 DEF Unknown
<1>2. CASE ~(Lists(a) /\ a.elem = Main)
  BY <1>2 DEF Size, PlugInSize, DeviceSize, StreamSize, DeviceStreamList, Lists
<1>3. QED
  BY <1>1, <1>2

LEMMA SameWorld ==
  ASSUME UNCHANGED worldVars
  PROVE  /\ \A a \in Addresses : Size(a)' = Size(a)
         /\ \A a \in Addresses : \A room : Data(a, room)' = Data(a, room)
         /\ NameTexts' = NameTexts /\ header' = header
<1>1. /\ gDevicePresent' = gDevicePresent /\ gIORunning' = gIORunning
      /\ gShm' = gShm /\ header' = header
  BY DEF worldVars
<1>2. DevChannels' = DevChannels /\ NameTexts' = NameTexts
  BY <1>1 DEF DevChannels, NameTexts
<1>3. QED
  BY <1>1, <1>2, SizeFrame, Frame

(* What the sweep knows of the item it asks about: until something the     *)
(* item depends on has changed, what it was told still holds.              *)
Sized ==
  /\ item.problems = {}
  /\ Size(item.of) # Unknown
  /\ item.size # Size(item.of) => Lists(item.of) /\ disturbed # {}

Answered ==
  /\ item.first.size # Unknown
  /\ item.first.size # item.size => Lists(item.of) /\ disturbed # {}
  /\ AsksName(item.of) => item.first = Answer(PointerSize, item.first.data)
  /\ disturbed = {} /\ ~AsksName(item.of) => item.first = Data(item.of, item.size)

NameStable ==
  /\ header.next = None
  /\ call[Sweep].pc = "read" => call[Sweep].buf \in NameTexts
  /\ item.pc = "again" => gCachedName = item.first.data /\ gCachedNameStr \in NameTexts

SweepInv ==
  /\ disturbed \subseteq DependsOn(item.of)
  /\ Asking => Sized
  /\ item.pc = "again" => Answered
  /\ Asking /\ AsksName(item.of) /\ disturbed = {} => NameStable
  /\ SweepClean

LEMMA Depends ==
  ASSUME NEW a
  PROVE  /\ Lists(a) => DependsOn(a) = {"presence"} /\ ~AsksName(a)
         /\ AsksName(a) => DependsOn(a) = {"name"} /\ ~Lists(a) /\ Size(a) = PointerSize
<1>1. Lists(a) => DependsOn(a) = {"presence"}
  BY DEF Lists, DependsOn, PlugIn, Device, Stream
<1>2. AsksName(a) => DependsOn(a) = {"name"}
  BY DEF AsksName, DependsOn, PlugIn, Device, Stream
<1>3. ~(Lists(a) /\ AsksName(a))
  BY DEF Lists, AsksName, PlugIn, Device
<1>4. AsksName(a) => Size(a) = DeviceSize("Name", a.scope)
  BY DEF AsksName, Size, PlugIn, Device, Stream, Main
<1>5. DeviceSize("Name", a.scope) = PointerSize
  BY DEF DeviceSize
<1>6. QED
  BY <1>1, <1>2, <1>3, <1>4, <1>5

(* The item is over.                                                       *)
LEMMA OverClean ==
  ASSUME NameInv, SweepInv, NEW p, Over(p),
         p \cap {"element", "data error"} = {},
         p \cap {"size unstable", "mismatch"} # {} => Lists(item.of) /\ disturbed # {},
         p # {} => disturbed # {}
  PROVE  SweepInv'
<1>1. CASE p = {}
  <2>1. item' = NoItem /\ disturbed' = {}
    BY <1>1 DEF Over
  <2>2. item'.pc = "idle" /\ item'.problems = {}
    BY <2>1 DEF NoItem
  <2>3. QED
    BY <2>1, <2>2 DEF SweepInv, Asking, SweepClean
<1>2. CASE p # {}
  <2>1. item' = [item EXCEPT !.pc = "idle", !.problems = p] /\ disturbed' = disturbed
    BY <1>2 DEF Over
  <2>2. item'.pc = "idle" /\ item'.problems = p /\ item'.of = item.of
    BY <2>1 DEF NameInv, Types
  <2>3. disturbed' \subseteq DependsOn(item'.of)
    BY <2>1, <2>2 DEF SweepInv
  <2>4. p \cap {"size unstable", "mismatch"} # {} => disturbed = {"presence"}
    <3>1. disturbed \subseteq DependsOn(item.of)
      BY DEF SweepInv
    <3>2. Lists(item.of) => DependsOn(item.of) = {"presence"}
      BY Depends
    <3>3. QED
      BY <3>1, <3>2
  <2>5. SweepClean'
    BY <2>1, <2>2, <2>4 DEF SweepClean
  <2>6. (disturbed \subseteq DependsOn(item.of))'
    BY <2>3 DEF DependsOn
  <2>7. QED
    BY <2>2, <2>5, <2>6 DEF SweepInv, Asking
<1>3. QED
  BY <1>1, <1>2

(* The second answer is compared with the first.                           *)
LEMMA Compared ==
  ASSUME NameInv, SweepInv, BufferInv, NEW d, item.pc = "again",
         Over(Problems(item.first, d)), d.size # Unknown, Within(d, item.size),
         disturbed = {} => item.first = d
  PROVE  SweepInv'
<1> DEFINE p == Problems(item.first, d)
<1>1. Answered /\ Sized
  BY DEF SweepInv, Asking
<1>2. Unknown \notin {item.first.size, d.size}
  BY <1>1 DEF Answered
<1>3. item.of.elem = Main
  BY <1>1 DEF Sized, Size
<1>4. ~(item.first.size > item.size) /\ ~(d.size > item.size)
  <2>1. Within(item.first, item.size)
    BY DEF BufferInv
  <2>2. QED
    BY <1>2, <2>1 DEF Within
<1>5. "element" \notin p /\ "data error" \notin p /\ "size unstable" \notin p /\ "overrun" \notin p
  BY <1>2, <1>3, <1>4 DEF Problems
<1>6. "mismatch" \in p => Lists(item.of) /\ disturbed # {}
  BY <1>1, <1>2 DEF Problems, Answered
<1>7. "data unstable" \in p => disturbed # {}
  BY <1>2 DEF Problems
<1>8. p \subseteq {"mismatch", "data unstable", "element", "overrun"}
  BY <1>2 DEF Problems
<1>9. p # {} => disturbed # {}
  BY <1>5, <1>6, <1>7, <1>8
<1>10. QED
  BY <1>5, <1>6, <1>9, OverClean

-----------------------------------------------------------------------------
(* The world's steps: what the item depends on is either as it was or      *)
(* recorded.                                                               *)
LEMMA WorldDisturbs ==
  ASSUME NameInv, SweepInv, World, Asking
  PROVE  /\ disturbed \subseteq disturbed' /\ disturbed' \subseteq DependsOn(item.of)
         /\ "presence" \in DependsOn(item.of) /\ ~(gDevicePresent' <=> gDevicePresent) => disturbed' # {}
         /\ "running" \in DependsOn(item.of) /\ ~(gIORunning' <=> gIORunning) => disturbed' # {}
         /\ "channels" \in DependsOn(item.of) /\ DevChannels' # DevChannels => disturbed' # {}
         /\ "name" \in DependsOn(item.of) /\ <<NameTexts', header.next'>> # <<NameTexts, header.next>>
              => disturbed' # {}
<1>0. disturbed \subseteq DependsOn(item.of)
  BY DEF SweepInv
<1>1. \A pieces : Disturbs(pieces) => disturbed' = disturbed \cup (pieces \cap DependsOn(item.of))
  BY DEF Disturbs
<1>2. CASE PresenceChanges
  <2>1. disturbed' = disturbed \cup ({"presence"} \cap DependsOn(item.of))
    BY <1>1, <1>2 DEF PresenceChanges
  <2>2. UNCHANGED <<gShm, gIORunning, header>>
    BY <1>2 DEF PresenceChanges
  <2>3. DevChannels' = DevChannels /\ NameTexts' = NameTexts
    BY <2>2 DEF DevChannels, NameTexts
  <2>4. QED
    BY <1>0, <2>1, <2>2, <2>3
<1>3. CASE RunningChanges
  <2>1. disturbed' = disturbed \cup ({"running"} \cap DependsOn(item.of))
    BY <1>1, <1>3 DEF RunningChanges
  <2>2. UNCHANGED <<gShm, gDevicePresent, header>>
    BY <1>3 DEF RunningChanges
  <2>3. DevChannels' = DevChannels /\ NameTexts' = NameTexts
    BY <2>2 DEF DevChannels, NameTexts
  <2>4. QED
    BY <1>0, <2>1, <2>2, <2>3
<1>4. CASE Attach \/ \E m \in Models : CreateChannels(m)
  <2>1. /\ Disturbs({"name"} \cup IF DevChannels' # DevChannels THEN {"channels"} ELSE {})
        /\ UNCHANGED <<gDevicePresent, gIORunning>>
    BY <1>4 DEF Attach, CreateChannels
  <2>2. disturbed' = disturbed \cup
          (({"name"} \cup IF DevChannels' # DevChannels THEN {"channels"} ELSE {})
             \cap DependsOn(item.of))
    BY <1>1, <2>1
  <2>3. QED
    BY <1>0, <2>1, <2>2
<1>5. CASE CreateHeader
  <2>1. /\ UNCHANGED <<gShm, gDevicePresent, gIORunning, disturbed>>
        /\ header' = [header EXCEPT !.ready = TRUE]
    BY <1>5 DEF CreateHeader
  <2>2. header'.channels = header.channels /\ header'.name = header.name /\ header'.next = header.next
    BY <2>1 DEF NameInv, Types, TypeOK
  <2>3. DevChannels' = DevChannels /\ NameTexts' = NameTexts
    BY <2>1, <2>2 DEF DevChannels, NameTexts
  <2>4. QED
    BY <1>0, <2>1, <2>2, <2>3
<1>6. CASE CreateNamed
  <2>1. /\ UNCHANGED <<gShm, gDevicePresent, gIORunning>>
        /\ header' = [header EXCEPT !.name = header.next, !.next = None]
        /\ disturbed' = disturbed \cup ({"name"} \cap DependsOn(item.of))
    BY <1>1, <1>6 DEF CreateNamed
  <2>2. header'.channels = header.channels
    BY <2>1 DEF NameInv, Types, TypeOK
  <2>3. DevChannels' = DevChannels
    BY <2>1, <2>2 DEF DevChannels
  <2>4. QED
    BY <1>0, <2>1, <2>3
<1>7. QED
  BY <1>2, <1>3, <1>4, <1>5, <1>6 DEF World

LEMMA CleanWorld == NameInv /\ SweepInv /\ World => SweepInv'
<1> SUFFICES ASSUME NameInv, SweepInv, World PROVE SweepInv'
  OBVIOUS
<1>0. item.of \in Addresses
  BY DEF NameInv, Types, TypeOK
<1>1. /\ item' = item /\ call' = call /\ gCachedName' = gCachedName
      /\ gCachedNameStr' = gCachedNameStr
  BY DEF World, PresenceChanges, RunningChanges, Attach, CreateHeader, CreateNamed,
         CreateChannels, nameVars
<1>2. CASE ~Asking
  <2>1. disturbed' = disturbed
    BY <1>2 DEF World, PresenceChanges, RunningChanges, Attach, CreateHeader, CreateNamed,
         CreateChannels, Disturbs
  <2>2. (disturbed \subseteq DependsOn(item.of))'
    BY <1>1, <2>1 DEF SweepInv, DependsOn
  <2>3. QED
    BY <1>1, <1>2, <2>1, <2>2 DEF SweepInv, Asking, SweepClean
<1>3. CASE Asking
  <2>1. /\ disturbed \subseteq disturbed' /\ disturbed' \subseteq DependsOn(item.of)
    BY <1>3, WorldDisturbs
  <2>2. (disturbed \subseteq DependsOn(item.of))'
    BY <1>1, <2>1 DEF DependsOn
  <2>3. PICK a \in Addresses : a = item.of
    BY <1>0
  <2>4. Lists(a) /\ disturbed' = {} => (gDevicePresent' <=> gDevicePresent)
    <3>1. Lists(a) => DependsOn(a) = {"presence"}
      BY Depends
    <3>2. QED
      BY <1>3, <2>3, <3>1, WorldDisturbs
  <2>5. /\ Size(a)' # Unknown
        /\ item.size # Size(a)' => Lists(a) /\ disturbed' # {}
    <3>1. Size(a) # Unknown /\ (item.size # Size(a) => Lists(a) /\ disturbed # {})
      BY <1>3, <2>3 DEF SweepInv, Sized
    <3>2. disturbed # {} => disturbed' # {}
      BY <2>1
    <3>3. (Lists(a) => (gDevicePresent' <=> gDevicePresent)) => Size(a)' = Size(a)
      BY SizeFrame
    <3>4. Size(a)' # Unknown
      BY <3>1, SizeFrame
    <3>5. QED
      BY <2>4, <3>1, <3>2, <3>3, <3>4
  <2>6. Sized'
    <3>1. item'.of = a /\ item'.size = item.size /\ item'.problems = item.problems
      BY <1>1, <2>3
    <3>2. (Size(item.of) # Unknown)'
      BY <2>5, <3>1
    <3>3. (item.size # Size(item.of))' => Lists(a) /\ disturbed' # {}
      BY <2>5, <3>1
    <3>4. Lists(a) => Lists(item.of)'
      BY <3>1 DEF Lists
    <3>5. item.problems = {}
      BY <1>3 DEF SweepInv, Sized
    <3>6. QED
      BY <3>1, <3>2, <3>3, <3>4, <3>5 DEF Sized, Lists
  <2>7. ASSUME item.pc = "again" PROVE Answered'
    <3>1. /\ item'.of = a /\ item'.size = item.size /\ item'.first = item.first
          /\ item.of = a /\ Answered
      BY <1>1, <2>3, <2>7 DEF SweepInv
    <3>2. disturbed' = {} => disturbed = {}
      BY <2>1
    <3>3. disturbed' = {} => \A room : Data(a, room)' = Data(a, room)
      <4>1. disturbed' = {} =>
              /\ "presence" \in DependsOn(a) => (gDevicePresent' <=> gDevicePresent)
              /\ "running" \in DependsOn(a) => (gIORunning' <=> gIORunning)
              /\ "channels" \in DependsOn(a) => DevChannels' = DevChannels
        BY <1>3, <2>3, WorldDisturbs
      <4>2. QED
        BY <4>1, Frame
    <3>4. disturbed' = {} /\ ~AsksName(a) => item.first = Data(a, item.size)'
      <4>1. disturbed = {} /\ ~AsksName(a) => item.first = Data(a, item.size)
        BY <3>1 DEF Answered
      <4>2. disturbed' = {} => Data(a, item.size)' = Data(a, item.size)
        BY <1>1, <3>3
      <4>3. QED
        BY <3>2, <4>1, <4>2
    <3>5. (disturbed = {} /\ ~AsksName(item.of) => item.first = Data(item.of, item.size))'
      BY <3>1, <3>4 DEF AsksName
    <3>6. QED
      BY <3>1, <3>2, <3>5 DEF Answered, Lists, AsksName, Answer
  <2>8. ASSUME AsksName(item.of), disturbed' = {} PROVE NameStable'
    <3>1. disturbed = {}
      BY <2>1, <2>8
    <3>2. NameStable
      BY <1>3, <2>8, <3>1 DEF SweepInv
    <3>3. DependsOn(item.of) = {"name"}
      BY <2>8, Depends
    <3>4. NameTexts' = NameTexts /\ header'.next = header.next
      BY <1>3, <2>8, <3>3, WorldDisturbs
    <3>5. QED
      BY <1>1, <3>2, <3>4 DEF NameStable
  <2>9. SweepClean'
    <3>1. item.problems = {}
      BY <1>3 DEF SweepInv, Sized
    <3>2. QED
      BY <1>1, <3>1 DEF SweepClean
  <2>10. QED
    BY <1>1, <2>2, <2>6, <2>7, <2>8, <2>9 DEF SweepInv, Asking, AsksName
<1>4. QED
  BY <1>2, <1>3

(* Steps that change neither the world nor the item.                       *)
LEMMA SameItem ==
  ASSUME NameInv, SweepInv, UNCHANGED worldVars, item' = item,
         disturbed \subseteq disturbed', disturbed' \subseteq DependsOn(item.of),
         ~Asking => disturbed' = disturbed,
         Asking /\ AsksName(item.of) /\ disturbed' = {} => NameStable'
  PROVE  SweepInv'
<1>0. item.of \in Addresses
  BY DEF NameInv, Types, TypeOK
<1>1. PICK a \in Addresses : a = item.of /\ a = item'.of
  BY <1>0
<1>2. (disturbed \subseteq DependsOn(item.of))'
  BY DEF DependsOn
<1>3. ASSUME Asking PROVE Sized'
  <2>1. Size(a)' = Size(a)
    BY SameWorld
  <2>2. Sized
    BY <1>3 DEF SweepInv
  <2>3. (Size(item.of) # Unknown)' /\ (item.size # Size(item.of) => Lists(item.of) /\ disturbed # {})'
    BY <1>1, <2>1, <2>2 DEF Sized, Lists
  <2>4. QED
    BY <2>2, <2>3 DEF Sized
<1>4. ASSUME item.pc = "again" PROVE Answered'
  <2>1. Answered
    BY <1>4 DEF SweepInv
  <2>2. Data(a, item.size)' = Data(a, item.size)
    <3>1. \A room : Data(a, room)' = Data(a, room)
      BY SameWorld
    <3>2. QED
      BY <3>1
  <2>3. (disturbed = {} /\ ~AsksName(item.of) => item.first = Data(item.of, item.size))'
    BY <1>1, <2>1, <2>2 DEF Answered, AsksName
  <2>4. QED
    BY <2>1, <2>3 DEF Answered, Lists, AsksName, Answer
<1>5. SweepClean'
  <2>1. Asking => item.problems = {}
    BY DEF SweepInv, Sized
  <2>2. QED
    BY <2>1 DEF SweepInv, SweepClean
<1>6. QED
  BY <1>2, <1>3, <1>4, <1>5 DEF SweepInv, Asking, AsksName

(* DeviceNameCopy of a thread: a copy older than the header is recorded, a *)
(* current one finds the cached string.                                    *)
LEMMA CleanRead == ASSUME NameInv, SweepInv, NEW t \in Threads \cup {Sweep}, NameRead(t)
  PROVE  SweepInv'
<1>0. call \in [Threads \cup {Sweep} -> CallType]
  BY DEF NameInv, Types, TypeOK, CallType
<1>1. item' = item /\ UNCHANGED worldVars /\ disturbed' = disturbed
      /\ gCachedName' = gCachedName /\ gCachedNameStr' = gCachedNameStr
  BY DEF NameRead
<1>2. ASSUME NameStable PROVE NameStable'
  <2>1. NameTexts' = NameTexts /\ header' = header
    BY <1>1, SameWorld
  <2>2. PICK text \in NameTexts :
          call' = [call EXCEPT ![t] = [pc |-> "read", buf |-> text, result |-> None]]
    BY DEF NameRead
  <2>3. call'[Sweep].pc = "read" => call'[Sweep].buf \in NameTexts
    BY <1>0, <1>2, <2>2 DEF NameStable
  <2>4. QED
    BY <1>1, <1>2, <2>1, <2>3 DEF NameStable
<1>3. QED
  BY <1>1, <1>2, SameItem DEF SweepInv

LEMMA CleanRelease == ASSUME NameInv, SweepInv, NEW t \in Threads \cup {Sweep}, NameReleased(t)
  PROVE  SweepInv'
<1>0. call \in [Threads \cup {Sweep} -> CallType] /\ t # Sweep
  BY DEF NameInv, Types, TypeOK, CallType, CallInv, NameReleased
<1>1. item' = item /\ UNCHANGED worldVars /\ disturbed' = disturbed
      /\ gCachedName' = gCachedName /\ gCachedNameStr' = gCachedNameStr
  BY DEF NameReleased
<1>2. ASSUME NameStable PROVE NameStable'
  <2>1. NameTexts' = NameTexts /\ header' = header
    BY <1>1, SameWorld
  <2>2. call'[Sweep] = call[Sweep]
    BY <1>0 DEF NameReleased
  <2>3. QED
    BY <1>1, <1>2, <2>1, <2>2 DEF NameStable
<1>3. QED
  BY <1>1, <1>2, SameItem DEF SweepInv

LEMMA CleanReturn == ASSUME NameInv, SweepInv, NEW t \in Threads \cup {Sweep}, NameReturns(t)
  PROVE  SweepInv'
<1>0. call \in [Threads \cup {Sweep} -> CallType] /\ t # Sweep
  BY DEF NameInv, Types, TypeOK, CallType, NameReturns
<1>1. item' = item /\ UNCHANGED worldVars
  BY DEF NameReturns
<1>2. disturbed' = IF Asking
                   THEN disturbed \cup ((IF NameTexts = {call[t].buf} THEN {} ELSE {"name"})
                                         \cap DependsOn(item.of))
                   ELSE disturbed
  BY DEF NameReturns, Disturbs
<1>3. disturbed \subseteq disturbed' /\ disturbed' \subseteq DependsOn(item.of)
  BY <1>2 DEF SweepInv
<1>4. ASSUME Asking, AsksName(item.of), disturbed' = {} PROVE NameStable'
  <2>1. DependsOn(item.of) = {"name"}
    BY <1>4, Depends
  <2>2. NameTexts = {call[t].buf}
    BY <1>2, <1>4, <2>1
  <2>3. disturbed = {} /\ NameStable
    BY <1>3, <1>4 DEF SweepInv
  <2>4. NameTexts' = NameTexts /\ header' = header
    BY <1>1, SameWorld
  <2>5. PICK s \in Strings :
          /\ Caches(t, s)
          /\ call' = [call EXCEPT ![t] = [pc |-> "holds", buf |-> Blank, result |-> s]]
    BY DEF NameReturns
  <2>6. call'[Sweep] = call[Sweep]
    BY <1>0, <2>5
  <2>7. gCachedName' = s /\ gCachedNameStr' = call[t].buf /\ s \in Results(t)
    BY <2>5 DEF Caches
  <2>8. ASSUME item.pc = "again" PROVE s = item.first.data
    <3>1. gCachedName = item.first.data /\ gCachedNameStr = call[t].buf
      BY <2>2, <2>3, <2>8 DEF NameStable
    <3>2. item.first.data \in Strings /\ None \notin Strings
      BY <1>4, <2>8, ObjectsAssumption DEF NameInv, CallInv
    <3>3. Hit(t)
      BY <3>1, <3>2 DEF Hit
    <3>4. QED
      BY <2>7, <3>1, <3>3 DEF Results
  <2>9. QED
    BY <1>1, <2>2, <2>3, <2>4, <2>6, <2>7, <2>8 DEF NameStable
<1>5. QED
  BY <1>1, <1>2, <1>3, <1>4, SameItem

(* The sweep's own steps.                                                  *)
LEMMA CleanBegin == ASSUME NameInv, SweepInv, NEW a \in Addresses, Begin(a)
  PROVE  SweepInv'
<1>1. item' = [pc |-> "size again", of |-> a, size |-> Size(a),
               first |-> Refused, problems |-> {}]
  BY DEF Begin
<1>2. disturbed' = (IF header.next # None THEN {"name"} \cap DependsOn(a) ELSE {})
      /\ Size(a) # Unknown /\ item.pc = "idle" /\ UNCHANGED <<worldVars, nameVars>>
  BY DEF Begin, HasProperty, Asking
<1>3. item'.pc = "size again" /\ item'.of = a /\ item'.size = Size(a) /\ item'.problems = {}
  BY <1>1
<1>4. Size(a)' = Size(a) /\ header' = header
  BY <1>2, SameWorld
<1>5. (disturbed \subseteq DependsOn(item.of))'
  BY <1>2, <1>3 DEF DependsOn
<1>6. Sized'
  BY <1>2, <1>3, <1>4 DEF Sized
<1>7. ASSUME AsksName(a), disturbed' = {} PROVE NameStable'
  <2>1. DependsOn(a) = {"name"}
    BY <1>7, Depends
  <2>2. header.next = None
    BY <1>2, <1>7, <2>1
  <2>3. call[Sweep].pc # "read" /\ call' = call
    BY <1>2 DEF NameInv, CallInv, nameVars
  <2>4. QED
    BY <1>3, <1>4, <2>2, <2>3 DEF NameStable
<1>8. SweepClean'
  BY <1>3 DEF SweepClean
<1>9. QED
  BY <1>3, <1>5, <1>6, <1>7, <1>8 DEF SweepInv, Asking, AsksName

LEMMA CleanSize == NameInv /\ SweepInv /\ AsksSizeAgain => SweepInv'
<1> SUFFICES ASSUME NameInv, SweepInv, AsksSizeAgain PROVE SweepInv'
  OBVIOUS
<1>0. item.of \in Addresses /\ UNCHANGED <<worldVars, nameVars>> /\ item.pc = "size again"
  BY DEF NameInv, Types, TypeOK, AsksSizeAgain
<1>1. Sized
  BY <1>0 DEF SweepInv, Asking
<1>2. CASE Size(item.of) = item.size /\ item' = [item EXCEPT !.pc = "data"] /\ disturbed' = disturbed
  <2>1. item' = [pc |-> "data", of |-> item.of, size |-> item.size,
                 first |-> item.first, problems |-> item.problems]
    BY <1>2 DEF NameInv, Types
  <2>2. PICK a \in Addresses : a = item.of /\ a = item'.of
    BY <1>0, <2>1
  <2>3. Size(a)' = Size(a) /\ NameTexts' = NameTexts /\ header' = header
    BY <1>0, SameWorld
  <2>4. (Size(item.of) # Unknown)' /\ (item.size # Size(item.of) => Lists(item.of) /\ disturbed # {})'
    BY <1>1, <1>2, <2>1, <2>2, <2>3 DEF Sized, Lists
  <2>5. Sized'
    BY <1>1, <2>1, <2>4 DEF Sized
  <2>6. (disturbed \subseteq DependsOn(item.of))'
    BY <1>2, <2>1 DEF SweepInv, DependsOn
  <2>7. ASSUME AsksName(item.of), disturbed = {} PROVE NameStable'
    <3>1. NameStable
      BY <1>0, <2>7 DEF SweepInv, Asking
    <3>2. call' = call
      BY <1>0 DEF nameVars
    <3>3. QED
      BY <2>1, <2>3, <3>1, <3>2 DEF NameStable
  <2>8. SweepClean'
    BY <1>1, <2>1 DEF Sized, SweepClean
  <2>9. QED
    BY <1>2, <2>1, <2>5, <2>6, <2>7, <2>8 DEF SweepInv, Asking, AsksName
<1>3. CASE Size(item.of) # item.size /\ Over({"size unstable"})
  BY <1>1, <1>3, OverClean DEF Sized
<1>4. QED
  BY <1>1, <1>2, <1>3 DEF AsksSizeAgain, Sized

(* The first Data call returns d.                                          *)
LEMMA CleanFirst ==
  ASSUME NameInv, SweepInv, item.pc = "data", NEW d,
         item' = [item EXCEPT !.pc = "again", !.first = d], UNCHANGED <<worldVars, disturbed>>,
         d.size # Unknown,
         d.size # item.size => Lists(item.of) /\ disturbed # {},
         AsksName(item.of) => d = Answer(PointerSize, d.data),
         ~AsksName(item.of) => d = Data(item.of, item.size),
         AsksName(item.of) /\ disturbed = {} => NameStable'
  PROVE  SweepInv'
<1>0. item.of \in Addresses /\ Sized
  BY DEF NameInv, Types, TypeOK, SweepInv, Asking
<1>1. item' = [pc |-> "again", of |-> item.of, size |-> item.size,
               first |-> d, problems |-> item.problems]
  BY FirstItem
<1>2. /\ item'.pc = "again" /\ item'.of = item.of /\ item'.size = item.size
      /\ item'.first = d /\ item'.problems = item.problems
  BY <1>1
<1>3. PICK a \in Addresses : a = item.of /\ a = item'.of
  BY <1>0, <1>2
<1>4. Size(a)' = Size(a) /\ \A room : Data(a, room)' = Data(a, room)
  BY SameWorld
<1>5. (Size(item.of) # Unknown)' /\ (item.size # Size(item.of) => Lists(item.of) /\ disturbed # {})'
  BY <1>0, <1>2, <1>3, <1>4 DEF Sized, Lists
<1>6. Sized'
  BY <1>0, <1>2, <1>5 DEF Sized
<1>7. ~AsksName(a) => d = Data(a, item.size)'
  <2>1. Data(a, item.size)' = Data(a, item.size)
    BY <1>2, <1>4
  <2>2. ~AsksName(a) => d = Data(a, item.size)
    BY <1>3
  <2>3. QED
    BY <2>1, <2>2
<1>8. (disturbed = {} /\ ~AsksName(item.of) => item.first = Data(item.of, item.size))'
  BY <1>2, <1>3, <1>7 DEF AsksName
<1>9. Answered'
  BY <1>2, <1>8 DEF Answered, Lists, AsksName, Answer
<1>10. (disturbed \subseteq DependsOn(item.of))'
  BY <1>2 DEF SweepInv, DependsOn
<1>11. SweepClean'
  BY <1>0, <1>2 DEF Sized, SweepClean
<1>12. QED
  BY <1>2, <1>6, <1>9, <1>10, <1>11 DEF SweepInv, Asking, AsksName

LEMMA CleanData == NameInv /\ SweepInv /\ BufferInv /\ AsksData => SweepInv'
<1> SUFFICES ASSUME NameInv, SweepInv, BufferInv, AsksData PROVE SweepInv'
  OBVIOUS
<1> DEFINE d == Data(item.of, item.size)
<1>0. /\ item.of \in Addresses /\ ~AsksName(item.of) /\ DataReturns(d)
      /\ item.pc \in {"data", "again"} /\ UNCHANGED worldVars
  BY DEF NameInv, Types, TypeOK, AsksData, DataReturns
<1>1. Sized /\ Announced(item.of, item.size)
  BY <1>0 DEF SweepInv, Asking, BufferInv
<1>2. d.size # Unknown /\ Data(item.of, Size(item.of)).size = Size(item.of)
  BY <1>0, <1>1, DataExact DEF Sized
<1>3. d.size # item.size => Lists(item.of) /\ disturbed # {}
  BY <1>1, <1>2 DEF Sized
<1>4. CASE item.pc = "data" /\ item' = [item EXCEPT !.pc = "again", !.first = d] /\ UNCHANGED disturbed
  BY <1>0, <1>2, <1>3, <1>4, CleanFirst
<1>5. CASE item.pc = "again" /\ Over(Problems(item.first, d))
  <2>1. Within(d, item.size)
    BY <1>0, <1>1, DataFits
  <2>2. disturbed = {} => item.first = d
    BY <1>0, <1>5 DEF SweepInv, Answered
  <2>3. QED
    BY <1>2, <1>5, <2>1, <2>2, Compared
<1>6. QED
  BY <1>0, <1>4, <1>5 DEF DataReturns

LEMMA CleanNameData == NameInv /\ SweepInv /\ BufferInv /\ AsksNameData => SweepInv'
<1> SUFFICES ASSUME NameInv, SweepInv, BufferInv, AsksNameData PROVE SweepInv'
  OBVIOUS
<1>0. /\ call \in [Threads \cup {Sweep} -> CallType] /\ call[Sweep].pc = "read"
      /\ item.pc \in {"data", "again"} /\ AsksName(item.of) /\ UNCHANGED worldVars
  BY DEF NameInv, Types, TypeOK, CallType, CallInv, AsksNameData
<1>1. PICK s \in Strings : Caches(Sweep, s) /\ DataReturns(Answer(PointerSize, s))
  BY DEF AsksNameData
<1> DEFINE d == Answer(PointerSize, s)
<1>2. /\ d.size = PointerSize /\ d.data = s /\ d.size # Unknown /\ ~Lists(item.of)
      /\ item.size = PointerSize /\ Within(d, item.size)
  <2>1. Size(item.of) = PointerSize /\ ~Lists(item.of)
    BY <1>0, Depends
  <2>2. Sized
    BY <1>0 DEF SweepInv, Asking
  <2>3. item.size = PointerSize
    BY <2>1, <2>2 DEF Sized
  <2>4. QED
    BY <2>1, <2>3 DEF Answer, PointerSize, Unknown, Within
<1>3. gCachedName' = s /\ gCachedNameStr' = call[Sweep].buf /\ s \in Results(Sweep)
  BY <1>1 DEF Caches
<1>4. disturbed = {} => NameStable
  BY <1>0 DEF SweepInv, Asking
<1>5. CASE item.pc = "data" /\ item' = [item EXCEPT !.pc = "again", !.first = d] /\ UNCHANGED disturbed
  <2>1. ASSUME disturbed = {} PROVE NameStable'
    <3>1. NameTexts' = NameTexts /\ header' = header
      BY <1>0, SameWorld
    <3>2. call'[Sweep].pc = "none"
      BY <1>0 DEF AsksNameData, NoCall
    <3>3. item' = [pc |-> "again", of |-> item.of, size |-> item.size,
                   first |-> d, problems |-> item.problems]
      BY <1>5, FirstItem
    <3>4. item'.first.data = s
      BY <1>2, <3>3
    <3>5. QED
      BY <1>0, <1>3, <1>4, <2>1, <3>1, <3>2, <3>4 DEF NameStable
  <2>2. QED
    BY <1>0, <1>2, <1>5, <2>1, CleanFirst
<1>6. CASE item.pc = "again" /\ Over(Problems(item.first, d))
  <2>1. ASSUME disturbed = {} PROVE item.first = d
    <3>1. NameStable /\ Answered
      BY <1>4, <1>6, <2>1 DEF SweepInv
    <3>2. gCachedNameStr = call[Sweep].buf
      <4>1. gCachedNameStr \in NameTexts /\ call[Sweep].buf \in NameTexts /\ header.next = None
        BY <1>0, <1>6, <3>1 DEF NameStable
      <4>2. QED
        BY <4>1 DEF NameTexts
    <3>3. gCachedName = item.first.data /\ item.first.data \in Strings /\ None \notin Strings
      BY <1>0, <1>6, <3>1, ObjectsAssumption DEF NameStable, NameInv, CallInv
    <3>4. s = item.first.data
      BY <1>3, <3>2, <3>3 DEF Hit, Results
    <3>5. item.first = Answer(PointerSize, item.first.data)
      BY <1>0, <3>1 DEF Answered
    <3>6. QED
      BY <3>4, <3>5
  <2>2. QED
    BY <1>2, <1>6, <2>1, Compared
<1>7. QED
  BY <1>1, <1>5, <1>6 DEF DataReturns

LEMMA SweepStep == NameInv /\ BufferInv /\ SweepInv /\ [Next]_vars => SweepInv'
<1> SUFFICES ASSUME NameInv, BufferInv, SweepInv, [Next]_vars PROVE SweepInv'
  OBVIOUS
<1>1. CASE UNCHANGED vars
  <2>1. UNCHANGED worldVars /\ item' = item /\ disturbed' = disturbed
    BY <1>1 DEF vars
  <2>2. NameStable => NameStable'
    <3>1. NameTexts' = NameTexts
      BY <2>1, SameWorld
    <3>2. QED
      BY <1>1, <3>1 DEF NameStable, vars, worldVars, nameVars
  <2>3. QED
    BY <2>1, <2>2, SameItem DEF SweepInv
<1>2. QED
  BY <1>1, CleanWorld, CleanRead, CleanReturn, CleanRelease, CleanBegin, CleanSize, CleanData,
     CleanNameData DEF Next, SweepNext

(* The two rules of docs/ARCHITECTURE.md: the sweep reports nothing, but   *)
(* what changed under it.                                                  *)
THEOREM SweepIsClean == Spec => []SweepClean
<1>1. Init => SweepInv
  BY DEF Init, SweepInv, NoItem, Asking, SweepClean
<1>2. Init => BufferInv
  BY DEF Init, BufferInv, WithinBuffer, NoItem
<1>3. SweepInv => SweepClean
  BY DEF SweepInv
<1>4. QED
  BY <1>1, <1>2, <1>3, BufferStep, SweepStep, NameInvariant, PTL DEF Spec

-----------------------------------------------------------------------------
(* What each object says it owns, and who owns it, to a caller with room   *)
(* for one object.                                                         *)
LEMMA Owned ==
  /\ Asked(PlugIn, "OwnedObjects").data = IF gDevicePresent THEN {Device} ELSE {}
  /\ Asked(Device, "OwnedObjects").data = {Stream}
  /\ Asked(Stream, "OwnedObjects").data = {}
<1>1. ListIfPresent(UInt32Size).data = IF gDevicePresent THEN {Device} ELSE {}
  BY DEF ListIfPresent, Answer, UInt32Size
<1>2. StreamsThatFit("global", UInt32Size).data = {Stream}
  <2>1. DeviceStreamList("global") = {Stream}
    BY DEF DeviceStreamList
  <2>2. Cardinality({Stream}) = 1
    BY FS_Singleton
  <2>3. UInt32Size >= UInt32Size * Cardinality(DeviceStreamList("global"))
    BY <2>1, <2>2 DEF UInt32Size
  <2>4. QED
    BY <2>1, <2>3 DEF StreamsThatFit, Answer
<1>3. /\ PlugInData("OwnedObjects", "none", UInt32Size) = ListIfPresent(UInt32Size)
      /\ DeviceData("OwnedObjects", "global", UInt32Size) = StreamsThatFit("global", UInt32Size)
      /\ StreamData("OwnedObjects") = Answer(0, {})
  BY DEF PlugInData, DeviceData, StreamData
<1>4. /\ Asked(PlugIn, "OwnedObjects") = PlugInData("OwnedObjects", "none", UInt32Size)
      /\ Asked(Device, "OwnedObjects") = DeviceData("OwnedObjects", "global", UInt32Size)
      /\ Asked(Stream, "OwnedObjects") = StreamData("OwnedObjects")
  BY DEF Asked, Data, Main, PlugIn, Device, Stream
<1>5. QED
  BY <1>1, <1>2, <1>3, <1>4 DEF Answer

LEMMA Owners ==
  /\ Asked(PlugIn, "Owner").data = {}
  /\ Asked(Device, "Owner").data = {PlugIn}
  /\ Asked(Stream, "Owner").data = {Device}
<1>1. /\ PlugInData("Owner", "none", UInt32Size) = Answer(UInt32Size, {})
      /\ DeviceData("Owner", "global", UInt32Size) = Answer(UInt32Size, {PlugIn})
      /\ StreamData("Owner") = Answer(UInt32Size, {Device})
  BY DEF PlugInData, DeviceData, StreamData
<1>2. /\ Asked(PlugIn, "Owner") = PlugInData("Owner", "none", UInt32Size)
      /\ Asked(Device, "Owner") = DeviceData("Owner", "global", UInt32Size)
      /\ Asked(Stream, "Owner") = StreamData("Owner")
  BY DEF Asked, Data, Main, PlugIn, Device, Stream
<1>3. QED
  BY <1>1, <1>2 DEF Answer

(* What owns an object and what the object names as its owner agree, and   *)
(* the device hangs from the plugin exactly while it is present: the       *)
(* OwnedObjects and Owner cases of GetPropertyData, in a buffer for one    *)
(* object.                                                                 *)
THEOREM ObjectsFormTree == Spec => []ObjectTree
<1>1. ObjectTree
  <2> SUFFICES ASSUME NEW p \in Objects, NEW o \in Objects
               PROVE  o \in Asked(p, "OwnedObjects").data <=>
                        p \in Asked(o, "Owner").data /\ (p = PlugIn => gDevicePresent)
    BY DEF ObjectTree
  <2>1. PlugIn = 1 /\ Device = 2 /\ Stream = 3 /\ Objects = {PlugIn, Device, Stream}
    BY DEF PlugIn, Device, Stream, Objects
  <2>2. CASE p = PlugIn
    BY <2>1, <2>2, Owned, Owners
  <2>3. CASE p = Device
    BY <2>1, <2>3, Owned, Owners
  <2>4. CASE p = Stream
    BY <2>1, <2>4, Owned, Owners
  <2>5. QED
    BY <2>1, <2>2, <2>3, <2>4
<1>2. QED
  BY <1>1, PTL

-----------------------------------------------------------------------------
(* The name service.  Who holds a string holds a reference to it.          *)
LEMMA HeldIsCounted ==
  ASSUME NEW s \in Strings
  PROVE  Names!Held(s) <=> Callers(s) # {}
<1>1. None # s /\ \A t \in Threads : t # Sweep
  BY ObjectsAssumption
<1>2. \A t \in Threads \cup {Sweep} : HeldStrings[t] = s <=> t \in Callers(s)
  BY <1>1 DEF HeldStrings, Callers
<1>3. Callers(s) \subseteq Threads \cup {Sweep}
  BY DEF Callers
<1>4. QED
  BY <1>2, <1>3 DEF Names!Held

(* A critical section, by a thread that keeps the string or lets go of two.*)
LEMMA CachesShown ==
  ASSUME NameInv, NEW t \in Threads \cup {Sweep}, NEW s \in Strings, Caches(t, s),
         HeldStrings' = [HeldStrings EXCEPT ![t] = IF HeldStrings[t] = None THEN s ELSE None]
  PROVE  Names!Gets(t)
<1>1. gCachedName' = s /\ gCachedNameStr' = call[t].buf /\ s \in Results(t)
  BY DEF Caches
<1>2. gCachedNameStr' \in Texts
  BY <1>1 DEF NameInv, Types, TypeOK
<1>3. CASE gCachedName # None /\ gCachedNameStr' = gCachedNameStr
  <2>1. s = gCachedName
    BY <1>1, <1>3 DEF Results, Hit
  <2>2. QED
    BY <1>1, <1>2, <1>3, <2>1 DEF Names!Gets
<1>4. CASE ~(gCachedName # None /\ gCachedNameStr' = gCachedNameStr)
  <2>1. ~Names!Held(s)
    BY <1>1, <1>4, Caching, HeldIsCounted DEF Hit
  <2>2. QED
    BY <1>1, <1>2, <1>4, <2>1 DEF Names!Gets
<1>5. QED
  BY <1>3, <1>4

LEMMA ReturnsShown ==
  ASSUME NameInv, NEW t \in Threads \cup {Sweep}, NameReturns(t)
  PROVE  Names!Gets(t)
<1>1. t # Sweep /\ call[t].pc = "read" /\ item' = item
  BY DEF NameReturns
<1>2. PICK s \in Strings :
        /\ Caches(t, s)
        /\ call' = [call EXCEPT ![t] = [pc |-> "holds", buf |-> Blank, result |-> s]]
  BY DEF NameReturns
<1>3. call \in [Threads \cup {Sweep} -> CallType]
  BY DEF NameInv, Types, TypeOK, CallType
<1>4. /\ call'[t].pc = "holds" /\ call'[t].result = s
      /\ \A u \in (Threads \cup {Sweep}) \ {t} : call'[u] = call[u]
  BY <1>2, <1>3
<1>5. HeldStrings[t] = None
  BY <1>1 DEF HeldStrings
<1>6. HeldStrings' = [HeldStrings EXCEPT ![t] = s]
  BY <1>1, <1>4 DEF HeldStrings, AsksName
<1>7. QED
  BY <1>2, <1>5, <1>6, CachesShown

LEMMA ReleasedShown ==
  ASSUME NameInv, NEW t \in Threads \cup {Sweep}, NameReleased(t)
  PROVE  Names!Releases(t)
<1>1. t \in Threads /\ t # Sweep /\ call[t].pc = "holds" /\ call[t].result \in Strings
  BY DEF NameReleased, NameInv, CallInv
<1>2. call \in [Threads \cup {Sweep} -> CallType] /\ NoCall.pc = "none"
  BY DEF NameInv, Types, TypeOK, CallType, NoCall
<1>3. call'[t].pc = "none" /\ \A u \in (Threads \cup {Sweep}) \ {t} : call'[u] = call[u]
  BY <1>2 DEF NameReleased
<1>4. UNCHANGED <<gCachedName, gCachedNameStr, item>>
  BY DEF NameReleased
<1>5. HeldStrings[t] # None
  BY <1>1, ObjectsAssumption DEF HeldStrings
<1>6. HeldStrings' = [HeldStrings EXCEPT ![t] = None]
  BY <1>1, <1>3, <1>4 DEF HeldStrings, AsksName
<1>7. QED
  BY <1>4, <1>5, <1>6 DEF Names!Releases

LEMMA NameDataShown ==
  ASSUME NameInv, AsksNameData
  PROVE  Names!Gets(Sweep)
<1>1. /\ call \in [Threads \cup {Sweep} -> CallType] /\ call[Sweep].pc = "read"
      /\ item.pc \in {"data", "again"} /\ AsksName(item.of)
  BY DEF NameInv, Types, TypeOK, CallType, AsksNameData, CallInv
<1>2. PICK s \in Strings : Caches(Sweep, s) /\ DataReturns(Answer(PointerSize, s))
  BY DEF AsksNameData
<1>3. \A t \in Threads : call'[t] = call[t] /\ t # Sweep
  BY <1>1, ObjectsAssumption DEF AsksNameData
<1>4. HeldStrings' = [HeldStrings EXCEPT ![Sweep] = IF HeldStrings[Sweep] = None THEN s ELSE None]
  <2>1. CASE item.pc = "data"
    <3>1. item' = [item EXCEPT !.pc = "again", !.first = Answer(PointerSize, s)]
      BY <1>2, <2>1 DEF DataReturns
    <3>2. item'.pc = "again" /\ item'.of = item.of /\ item'.first.data = s
      BY <3>1, FirstItem DEF Answer
    <3>3. HeldStrings[Sweep] = None
      BY <2>1 DEF HeldStrings
    <3>4. HeldStrings' = [HeldStrings EXCEPT ![Sweep] = s]
      BY <1>1, <1>3, <3>2 DEF HeldStrings, AsksName
    <3>5. QED
      BY <3>3, <3>4
  <2>2. CASE item.pc = "again"
    <3>1. item'.pc = "idle"
      BY <1>2, <2>2, OverItem DEF DataReturns
    <3>2. HeldStrings[Sweep] \in Strings
      BY <1>1, <2>2 DEF HeldStrings, NameInv, CallInv
    <3>3. HeldStrings' = [HeldStrings EXCEPT ![Sweep] = None]
      BY <1>3, <3>1 DEF HeldStrings
    <3>4. QED
      BY <3>2, <3>3, ObjectsAssumption
  <2>3. QED
    BY <1>1, <2>1, <2>2
<1>5. QED
  BY <1>2, <1>4, CachesShown

(* Nobody is given a string or releases one.                               *)
LEMMA NamesUnseen ==
  ASSUME NameInv,
         \/ World \/ UNCHANGED vars
         \/ AsksSizeAgain \/ AsksData \/ \E a \in Addresses : Begin(a)
         \/ \E t \in Threads \cup {Sweep} : NameRead(t)
  PROVE  UNCHANGED <<gCachedName, gCachedNameStr, HeldStrings>>
<1>1. CASE World \/ UNCHANGED vars
  BY <1>1 DEF World, PresenceChanges, RunningChanges, Attach, CreateHeader, CreateNamed,
     CreateChannels, vars, nameVars, HeldStrings, AsksName
<1>2. CASE AsksSizeAgain \/ AsksData \/ \E a \in Addresses : Begin(a)
  BY <1>2, QuietStep DEF HeldStrings, AsksName
<1>3. ASSUME NEW t \in Threads \cup {Sweep}, NameRead(t)
      PROVE  UNCHANGED <<gCachedName, gCachedNameStr, HeldStrings>>
  <2>1. call \in [Threads \cup {Sweep} -> CallType]
    BY DEF NameInv, Types, TypeOK, CallType
  <2>2. PICK text : call' = [call EXCEPT ![t] = [pc |-> "read", buf |-> text, result |-> None]]
    BY <1>3 DEF NameRead
  <2>3. /\ call'[t].pc = "read" /\ call[t].pc = "none"
        /\ \A u \in (Threads \cup {Sweep}) \ {t} : call'[u] = call[u]
    BY <1>3, <2>1, <2>2 DEF NameRead
  <2>4. UNCHANGED <<gCachedName, gCachedNameStr, item>>
    BY <1>3 DEF NameRead
  <2>5. QED
    BY <2>3, <2>4 DEF HeldStrings, AsksName
<1>4. QED
  BY <1>1, <1>2, <1>3

(* Every step is one of the abstract name service's or leaves it alone.    *)
LEMMA NamesShown == NameInv /\ [Next]_vars => [Names!Next]_(Names!vars)
<1> SUFFICES ASSUME NameInv, [Next]_vars PROVE [Names!Next]_(Names!vars)
  OBVIOUS
<1>1. CASE AsksNameData
  BY <1>1, NameDataShown DEF Names!Next
<1>2. ASSUME NEW t \in Threads \cup {Sweep}, NameReturns(t) \/ NameReleased(t)
      PROVE  Names!Next
  BY <1>2, ReturnsShown, ReleasedShown DEF Names!Next
<1>3. CASE \/ World \/ UNCHANGED vars
           \/ AsksSizeAgain \/ AsksData \/ \E a \in Addresses : Begin(a)
           \/ \E t \in Threads \cup {Sweep} : NameRead(t)
  BY <1>3, NamesUnseen DEF Names!vars
<1>4. QED
  BY <1>1, <1>2, <1>3 DEF Next, SweepNext

(* DeviceNameCopy implements the abstract name service: its reference      *)
(* counts never let a string be used again while a thread holds it, and    *)
(* threads that ask for the text given last get the same string.           *)
THEOREM CacheGivesNames == Spec => GivesNames
<1>1. Init => Names!Init
  <2> SUFFICES ASSUME Init PROVE Names!Init
    OBVIOUS
  <2>1. \A t \in Threads \cup {Sweep} : call[t].pc = "none" /\ item.pc = "idle"
    BY DEF Init, NoCall, NoItem
  <2>2. HeldStrings = [t \in Threads \cup {Sweep} |-> None]
    BY <2>1 DEF HeldStrings
  <2>3. QED
    BY <2>2 DEF Init, Names!Init, Texts
<1>2. QED
  BY <1>1, NamesShown, NameInvariant, PTL DEF Spec, GivesNames, Names!Spec

(* The cached string keeps its text for as long as any thread holds it:    *)
(* DeviceNameCopy rebuilds a name only as a string of its own.             *)
THEOREM TextOutlivesHolder == Spec => HeldKeepsText
<1> DEFINE Keeps == \A t \in Threads \cup {Sweep} :
             gCachedName # None /\ gCachedName' = gCachedName /\ HeldStrings[t] = gCachedName
               => UNCHANGED gCachedNameStr
<1>1. [Names!Next]_(Names!vars) => Keeps
  BY DEF Names!Next, Names!vars, Names!Gets, Names!Releases, Names!Held
<1>2. NameInv /\ [Next]_vars => [Keeps]_vars
  BY <1>1, NamesShown
<1>3. QED
  BY <1>2, NameInvariant, PTL DEF Spec, HeldKeepsText
=============================================================================
