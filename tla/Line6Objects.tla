----------------------------- MODULE Line6Objects -----------------------------
(***************************************************************************)
(* The property interface of the plugin: HasProperty, GetPropertyDataSize, *)
(* GetPropertyData and DeviceNameCopy, asked by a host the way haltest's   *)
(* sweep asks, while the monitor, other host threads and the daemon change *)
(* what the answers are made of.                                           *)
(*                                                                         *)
(* The two tables are translated one by one from the two switches of the   *)
(* code.  An answer is a number of bytes and, where it can differ between  *)
(* two calls or names an object, its content; contents that are constants  *)
(* of the code are one value, Fixed.  Names are texts: a model of the      *)
(* device table, or what a copy made during a rewrite may hold.            *)
(***************************************************************************)
EXTENDS Naturals, FiniteSets

CONSTANTS
  Models,          \* the rows of the device table that may be plugged in
  Channels,        \* capture_channels of each
  Mixtures,        \* texts a copy may hold that overlaps a rewrite, whole ones apart
  Threads,         \* host threads that ask for the name besides the sweep
  Strings,         \* the CFString objects that can exist at once
  None             \* no model, no string

MaxChannels == 8   \* LINE6_MAX_CHANNELS
Blank == "blank"   \* a name whose first byte is zero
DefaultName == "Line 6"
Sweep == "sweep"   \* the thread that sweeps
Cache == "cache"   \* the cache, as the holder of a reference

ASSUME ObjectsAssumption ==
  /\ Channels \in [Models -> 1 .. MaxChannels]
  /\ IsFiniteSet(Strings)
  /\ None \notin Models \cup Strings
  /\ {Blank, DefaultName} \cap (Models \cup Mixtures) = {}
  /\ IsFiniteSet(Threads) /\ {Sweep, Cache} \cap Threads = {}

VARIABLES
  gShm,            \* gShm # NULL
  gDevicePresent,
  gIORunning,      \* gIO_Running > 0
  header,          \* the segment: ready to attach, channels, name, and the model
                   \* whose name is being written
  gCachedName,     \* the cached CFString, or None
  gCachedNameStr,  \* its text as DeviceNameCopy remembers it
  refs,            \* the reference count of each CFString, 0 when it does not exist
  call,            \* each thread's progress through DeviceNameCopy: its buf, its result
  item,            \* the sweep's current object, selector, scope and element, the
                   \* sizes and data it was given, the problems it printed
  disturbed        \* history: what changed while the item was being asked about

worldVars == <<gShm, gDevicePresent, gIORunning, header>>
nameVars == <<gCachedName, gCachedNameStr, refs, call>>
vars == <<worldVars, nameVars, item, disturbed>>

-----------------------------------------------------------------------------
(* The object model.                                                       *)

PlugIn == 1
Device == 2
Stream == 3
Objects == {PlugIn, Device, Stream}
Scopes == {"global", "input", "output"}
Elements == 0 .. 2
Main == 0
Qualifiers == {"none", "our UID"}    \* qs, q of GetPropertyData

(* haltest's kSelectors; a stream's Latency has the device's code.         *)
Selectors ==
  {"BaseClass", "Class", "Owner", "Name", "Manufacturer", "OwnedObjects",
   "DeviceList", "BoxList", "ClockDeviceList", "TranslateUID", "ResourceBundle",
   "ControlList", "DeviceUID", "ModelUID", "TransportType", "ClockDomain",
   "IsAlive", "IsRunning", "CanDefault", "CanDefaultSys", "Latency",
   "SafetyOffset", "IsHidden", "ZTSPeriod", "NominalRate", "AvailRates",
   "RelatedDevices", "Streams", "StreamConfig", "PrefStereo", "IsActive",
   "Direction", "TerminalType", "StartingChannel", "VirtualFormat",
   "PhysicalFormat", "AvailVirtFmts", "AvailPhysFmts"}

Addresses ==
  [obj : Objects, sel : Selectors, scope : Scopes, elem : Elements, q : Qualifiers]

(* sizeof, on a 64-bit build.                                              *)
UInt32Size == 4        \* UInt32, AudioClassID, AudioObjectID
PointerSize == 8       \* CFStringRef
Float64Size == 8
ValueRangeSize == 16   \* AudioValueRange
ListHeaderSize == 8    \* offsetof(AudioBufferList, mBuffers)
BufferSize == 16       \* AudioBuffer
FormatSize == 40       \* AudioStreamBasicDescription
RangedSize == 56       \* AudioStreamRangedDescription

DevChannels ==
  IF gShm /\ header.channels \in 1 .. MaxChannels THEN header.channels ELSE MaxChannels

DeviceStreamList(scope) == IF scope \in {"global", "input"} THEN {Stream} ELSE {}

-----------------------------------------------------------------------------
(* GetPropertyDataSize.                                                    *)

Unknown == 1000        \* an error: any value that is no size

PlugInSize(sel) ==
  CASE sel \in {"BaseClass", "Class", "Owner", "TranslateUID"} -> UInt32Size
    [] sel \in {"Manufacturer", "ResourceBundle"} -> PointerSize
    [] sel \in {"OwnedObjects", "DeviceList"} -> IF gDevicePresent THEN UInt32Size ELSE 0
    [] sel \in {"BoxList", "ClockDeviceList"} -> 0
    [] OTHER -> Unknown

DeviceSize(sel, scope) ==
  CASE sel \in {"BaseClass", "Class", "Owner", "TransportType", "ClockDomain", "IsAlive",
                "IsRunning", "CanDefault", "CanDefaultSys", "Latency", "SafetyOffset",
                "IsHidden", "ZTSPeriod", "RelatedDevices"} -> UInt32Size
    [] sel \in {"Name", "Manufacturer", "DeviceUID", "ModelUID"} -> PointerSize
    [] sel \in {"OwnedObjects", "Streams"} -> Cardinality(DeviceStreamList(scope)) * UInt32Size
    [] sel = "ControlList" -> 0
    [] sel = "NominalRate" -> Float64Size
    [] sel = "AvailRates" -> ValueRangeSize
    [] sel = "StreamConfig" ->
         IF scope = "output" THEN ListHeaderSize ELSE ListHeaderSize + BufferSize
    [] sel = "PrefStereo" -> 2 * UInt32Size
    [] OTHER -> Unknown

StreamSize(sel) ==
  CASE sel \in {"BaseClass", "Class", "Owner", "IsActive", "Direction", "TerminalType",
                "StartingChannel", "Latency"} -> UInt32Size
    [] sel = "OwnedObjects" -> 0
    [] sel \in {"VirtualFormat", "PhysicalFormat"} -> FormatSize
    [] sel \in {"AvailVirtFmts", "AvailPhysFmts"} -> RangedSize
    [] OTHER -> Unknown

(* Mutant: the element is not looked at.                                   *)
SizeAnyElement(a) ==
  CASE a.obj = PlugIn -> PlugInSize(a.sel)
    [] a.obj = Device -> DeviceSize(a.sel, a.scope)
    [] a.obj = Stream -> StreamSize(a.sel)
    [] OTHER -> Unknown

Size(a) ==
  CASE a.elem # Main -> Unknown
    [] a.elem = Main /\ a.obj = PlugIn -> PlugInSize(a.sel)
    [] a.elem = Main /\ a.obj = Device -> DeviceSize(a.sel, a.scope)
    [] a.elem = Main /\ a.obj = Stream -> StreamSize(a.sel)
    [] OTHER -> Unknown

HasProperty(a) == Size(a) # Unknown

-----------------------------------------------------------------------------
(* GetPropertyData, into a buffer with room for so many bytes: the bytes   *)
(* it stores, and their content.                                           *)

Answer(size, data) == [size |-> size, data |-> data]
Fixed == "fixed"
Refused == Answer(Unknown, Fixed)

(* Mutant: the device is stored whether or not it fits.                    *)
ListIfPresentUnguarded(room) ==
  IF gDevicePresent THEN Answer(UInt32Size, {Device}) ELSE Answer(0, {})

(* The device list of the plugin object.                                   *)
ListIfPresent(room) ==
  IF gDevicePresent /\ room >= UInt32Size THEN Answer(UInt32Size, {Device}) ELSE Answer(0, {})

PlugInData(sel, q, room) ==
  CASE sel \in {"BaseClass", "Class"} -> Answer(UInt32Size, Fixed)
    [] sel = "Owner" -> Answer(UInt32Size, {})
    [] sel \in {"Manufacturer", "ResourceBundle"} -> Answer(PointerSize, Fixed)
    [] sel \in {"OwnedObjects", "DeviceList"} -> ListIfPresent(room)
    [] sel \in {"BoxList", "ClockDeviceList"} -> Answer(0, {})
    [] sel = "TranslateUID" ->
         Answer(UInt32Size, IF gDevicePresent /\ q = "our UID" THEN {Device} ELSE {})
    [] OTHER -> Refused

(* The streams that fit.                                                   *)
StreamsThatFit(scope, room) ==
  IF room >= UInt32Size * Cardinality(DeviceStreamList(scope))
  THEN Answer(UInt32Size * Cardinality(DeviceStreamList(scope)), DeviceStreamList(scope))
  ELSE Answer(0, {})

(* Everything but the name, which takes DeviceNameCopy's steps.            *)
DeviceData(sel, scope, room) ==
  CASE sel \in {"BaseClass", "Class", "TransportType", "ClockDomain", "IsAlive", "CanDefault",
                "CanDefaultSys", "Latency", "SafetyOffset", "IsHidden", "ZTSPeriod"} ->
         Answer(UInt32Size, Fixed)
    [] sel = "Owner" -> Answer(UInt32Size, {PlugIn})
    [] sel \in {"Manufacturer", "DeviceUID", "ModelUID"} -> Answer(PointerSize, Fixed)
    [] sel \in {"OwnedObjects", "Streams"} -> StreamsThatFit(scope, room)
    [] sel = "ControlList" -> Answer(0, {})
    [] sel = "IsRunning" -> Answer(UInt32Size, IF gIORunning THEN 1 ELSE 0)
    [] sel = "NominalRate" -> Answer(Float64Size, Fixed)
    [] sel = "AvailRates" -> Answer(ValueRangeSize, Fixed)
    [] sel = "RelatedDevices" ->
         IF room >= UInt32Size THEN Answer(UInt32Size, {Device}) ELSE Answer(0, {})
    [] sel = "StreamConfig" ->
         IF scope = "output" THEN Answer(ListHeaderSize, 0)
         ELSE Answer(ListHeaderSize + BufferSize, DevChannels)
    [] sel = "PrefStereo" -> Answer(2 * UInt32Size, Fixed)
    [] OTHER -> Refused

(* FillASBD's content is the channel count.                                *)
FillASBD == DevChannels

StreamData(sel) ==
  CASE sel \in {"BaseClass", "Class", "IsActive", "Direction", "TerminalType",
                "StartingChannel", "Latency"} -> Answer(UInt32Size, Fixed)
    [] sel = "Owner" -> Answer(UInt32Size, {Device})
    [] sel = "OwnedObjects" -> Answer(0, {})
    [] sel \in {"VirtualFormat", "PhysicalFormat"} -> Answer(FormatSize, FillASBD)
    [] sel \in {"AvailVirtFmts", "AvailPhysFmts"} -> Answer(RangedSize, FillASBD)
    [] OTHER -> Refused

Data(a, room) ==
  CASE a.elem # Main -> Refused
    [] a.elem = Main /\ a.obj = PlugIn -> PlugInData(a.sel, a.q, room)
    [] a.elem = Main /\ a.obj = Device -> DeviceData(a.sel, a.scope, room)
    [] a.elem = Main /\ a.obj = Stream -> StreamData(a.sel)
    [] OTHER -> Refused

AsksName(a) == a.obj = Device /\ a.sel = "Name" /\ a.elem = Main

-----------------------------------------------------------------------------
(* The world the answers are made of.                                      *)

NoCall == [pc |-> "none", buf |-> Blank, result |-> None]
NoItem == [pc |-> "idle", of |-> [obj |-> PlugIn, sel |-> "Class", scope |-> "global",
                                  elem |-> Main, q |-> "none"],
           size |-> 0, first |-> Refused, problems |-> {}]

Init ==
  /\ gShm = FALSE
  /\ gDevicePresent = TRUE
  /\ gIORunning = FALSE
  /\ header = [ready |-> FALSE, channels |-> 0, name |-> Blank, next |-> None]
  /\ gCachedName = None
  /\ gCachedNameStr = Blank
  /\ refs = [s \in Strings |-> 0]
  /\ call = [t \in Threads \cup {Sweep} |-> NoCall]
  /\ item = NoItem
  /\ disturbed = {}

Asking == item.pc # "idle"

(* What the answers for one address are made of, where it can change.      *)
DependsOn(a) ==
  CASE a.obj = PlugIn /\ a.sel \in {"OwnedObjects", "DeviceList"} -> {"presence"}
    [] a.obj = PlugIn /\ a.sel = "TranslateUID" /\ a.q = "our UID" -> {"presence"}
    [] a.obj = Device /\ a.sel = "IsRunning" -> {"running"}
    [] a.obj = Device /\ a.sel = "Name" -> {"name"}
    [] a.obj = Device /\ a.sel = "StreamConfig" /\ a.scope # "output" -> {"channels"}
    [] a.obj = Stream /\ a.sel \in {"VirtualFormat", "PhysicalFormat", "AvailVirtFmts",
                                    "AvailPhysFmts"} -> {"channels"}
    [] OTHER -> {}

(* Pieces of the world change in this step; the history keeps those that   *)
(* the item being asked about depends on.                                  *)
Disturbs(pieces) ==
  disturbed' = IF Asking THEN disturbed \cup (pieces \cap DependsOn(item.of)) ELSE disturbed

(* The monitor's exchange; when it happens is Line6Plugin's subject.       *)
PresenceChanges ==
  /\ gDevicePresent' = ~gDevicePresent
  /\ Disturbs({"presence"})
  /\ UNCHANGED <<gShm, gIORunning, header, nameVars, item>>

(* The first StartIO, the last StopIO.                                     *)
RunningChanges ==
  /\ gIORunning' = ~gIORunning
  /\ Disturbs({"running"})
  /\ UNCHANGED <<gShm, gDevicePresent, header, nameVars, item>>

(* AttachShm, once magic and version are there.                            *)
Attach ==
  /\ ~gShm /\ header.ready
  /\ gShm' = TRUE
  /\ UNCHANGED <<gDevicePresent, gIORunning, header, nameVars, item>>
  /\ Disturbs({"name"} \cup IF DevChannels' # DevChannels THEN {"channels"} ELSE {})

(* shm::create: magic and version (there already, but the first time),     *)
(* then channels; write_name clears the name and copies the new one.       *)
CreateHeader ==
  /\ ~header.ready
  /\ header' = [header EXCEPT !.ready = TRUE]
  /\ UNCHANGED <<gShm, gDevicePresent, gIORunning, nameVars, item, disturbed>>

CreateChannels(m) ==
  /\ header.ready /\ header.next = None
  /\ header' = [header EXCEPT !.channels = Channels[m], !.next = m]
  /\ UNCHANGED <<gShm, gDevicePresent, gIORunning, nameVars, item>>
  /\ Disturbs({"name"} \cup IF DevChannels' # DevChannels THEN {"channels"} ELSE {})

CreateNamed ==
  /\ header.next # None
  /\ header' = [header EXCEPT !.name = header.next, !.next = None]
  /\ Disturbs({"name"})
  /\ UNCHANGED <<gShm, gDevicePresent, gIORunning, nameVars, item>>

-----------------------------------------------------------------------------
(* DeviceNameCopy.                                                         *)

Named(text) == IF text = Blank THEN DefaultName ELSE text

(* The texts a copy of the header's name may hold: while it is rewritten,  *)
(* the old one, zeroes, the new one or a mixture.                          *)
NameTexts ==
  IF ~gShm THEN {DefaultName}
  ELSE IF header.next = None THEN {Named(header.name)}
  ELSE {Named(header.name), DefaultName, header.next} \cup Mixtures

(* memcpy, without the mutex.                                              *)
NameRead(t) ==
  /\ call[t].pc = "none"
  /\ t = Sweep => item.pc \in {"data", "again"} /\ AsksName(item.of)
  /\ \E text \in NameTexts :
       call' = [call EXCEPT ![t] = [pc |-> "read", buf |-> text, result |-> None]]
  /\ UNCHANGED <<worldVars, gCachedName, gCachedNameStr, refs, item, disturbed>>

Dropped(counts, s) == [counts EXCEPT ![s] = @ - 1]

(* Mutant: any cached string will do.                                      *)
HitAnyText(t) == gCachedName # None

(* The thread's text is the cached one.                                    *)
Hit(t) == gCachedName # None /\ call[t].buf = gCachedNameStr

(* Mutant: the string that is replaced is not released.                    *)
AfterReleaseKept(t) == refs

(* A string that is replaced loses the cache's reference, and its memory   *)
(* with it if nobody else holds one.                                       *)
AfterRelease(t) ==
  IF Hit(t) \/ gCachedName = None THEN refs ELSE Dropped(refs, gCachedName)

Results(t) == IF Hit(t) THEN {gCachedName} ELSE {s \in Strings : AfterRelease(t)[s] = 0}

(* Mutant: the caller's reference is not taken.                            *)
CountedUnretained(t, s) == [AfterRelease(t) EXCEPT ![s] = IF Hit(t) THEN @ ELSE 1]

(* One reference for the caller, and one for the cache if s is new.        *)
Counted(t, s) == [AfterRelease(t) EXCEPT ![s] = IF Hit(t) THEN @ + 1 ELSE 2]

(* The critical section of thread t ends with s cached and returned.       *)
Caches(t, s) ==
  /\ s \in Results(t)
  /\ gCachedName' = s
  /\ gCachedNameStr' = call[t].buf

(* A thread gets the name; if its copy is older than the header, so is now *)
(* the cache.                                                              *)
NameReturns(t) ==
  /\ t # Sweep /\ call[t].pc = "read"
  /\ \E s \in Strings :
       /\ Caches(t, s)
       /\ refs' = Counted(t, s)
       /\ call' = [call EXCEPT ![t] = [pc |-> "holds", buf |-> Blank, result |-> s]]
  /\ Disturbs(IF NameTexts = {call[t].buf} THEN {} ELSE {"name"})
  /\ UNCHANGED <<worldVars, item>>

(* The caller releases its reference.                                      *)
NameReleased(t) ==
  /\ call[t].pc = "holds"
  /\ refs' = Dropped(refs, call[t].result)
  /\ call' = [call EXCEPT ![t] = NoCall]
  /\ UNCHANGED <<worldVars, gCachedName, gCachedNameStr, item, disturbed>>

-----------------------------------------------------------------------------
(* The sweep, in any order: the plugin keeps nothing between two items but *)
(* the cached name.  An address without the property is passed over.       *)

(* The selectors whose cases read mScope; elsewhere the sweep's scopes are *)
(* one.                                                                    *)
ReadsScope == {"OwnedObjects", "Streams", "StreamConfig"}

(* HasProperty, whose answer never changes, and the first Size call.       *)
Begin(a) ==
  /\ ~Asking
  /\ a.q # "none" => a.sel = "TranslateUID"
  /\ a.scope # "global" => a.obj = Device /\ a.sel \in ReadsScope
  /\ HasProperty(a)
  /\ item' = [pc |-> "size again", of |-> a, size |-> Size(a), first |-> Refused, problems |-> {}]
  /\ disturbed' = IF header.next # None THEN {"name"} \cap DependsOn(a) ELSE {}
  /\ UNCHANGED <<worldVars, nameVars>>

(* The item is done with; it is remembered if there is anything to report. *)
Over(problems) ==
  /\ item' = IF problems = {} THEN NoItem ELSE [item EXCEPT !.pc = "idle", !.problems = problems]
  /\ disturbed' = IF problems = {} THEN {} ELSE disturbed

AsksSizeAgain ==
  /\ item.pc = "size again"
  /\ \/ /\ Size(item.of) # Unknown /\ Size(item.of) = item.size
        /\ item' = [item EXCEPT !.pc = "data"]
        /\ UNCHANGED disturbed
     \/ /\ Size(item.of) = Unknown \/ Size(item.of) # item.size
        /\ Over({"size unstable"})
  /\ UNCHANGED <<worldVars, nameVars>>

(* The problems haltest prints when both Data calls have returned; overrun *)
(* is one it cannot see.                                                   *)
Problems(d1, d2) ==
  IF Unknown \in {d1.size, d2.size} THEN {"data error"}
  ELSE {p \in {"mismatch", "data unstable", "element", "overrun"} :
          \/ p = "mismatch" /\ d1.size # item.size
          \/ p = "data unstable" /\ d1 # d2
          \/ p = "element" /\ item.of.elem # Main
          \/ p = "overrun" /\ (d1.size > item.size \/ d2.size > item.size)}

(* A Data call returns, into a buffer of the size asked for before.        *)
DataReturns(d) ==
  \/ /\ item.pc = "data"
     /\ item' = [item EXCEPT !.pc = "again", !.first = d]
     /\ UNCHANGED disturbed
  \/ /\ item.pc = "again"
     /\ Over(Problems(item.first, d))

AsksData ==
  /\ ~AsksName(item.of)
  /\ DataReturns(Data(item.of, item.size))
  /\ UNCHANGED <<worldVars, nameVars>>

(* GetPropertyData of the name.  The sweep keeps its first string until it *)
(* has compared it with the second and then releases both (haltest keeps   *)
(* them).                                                                  *)
AsksNameData ==
  /\ call[Sweep].pc = "read"
  /\ \E s \in Strings :
       /\ Caches(Sweep, s)
       /\ DataReturns(Answer(PointerSize, s))
       /\ refs' = IF item.pc = "data" THEN Counted(Sweep, s)
                  ELSE Dropped(Dropped(Counted(Sweep, s), s), item.first.data)
  /\ call' = [call EXCEPT ![Sweep] = NoCall]
  /\ UNCHANGED worldVars

-----------------------------------------------------------------------------
World ==
  \/ PresenceChanges \/ RunningChanges \/ Attach
  \/ CreateHeader \/ CreateNamed \/ \E m \in Models : CreateChannels(m)

SweepNext ==
  AsksSizeAgain \/ AsksData \/ AsksNameData \/ \E a \in Addresses : Begin(a)

Next ==
  \/ World \/ SweepNext
  \/ \E t \in Threads \cup {Sweep} : NameRead(t) \/ NameReturns(t) \/ NameReleased(t)

Spec == Init /\ [][Next]_vars

-----------------------------------------------------------------------------
(* Properties.                                                             *)

Texts == Models \cup Mixtures \cup {Blank, DefaultName}

(* Every variable has its type.                                            *)
TypeOK ==
  /\ gShm \in BOOLEAN /\ gDevicePresent \in BOOLEAN /\ gIORunning \in BOOLEAN
  /\ header \in [ready : BOOLEAN, channels : 0 .. MaxChannels,
                 name : Models \cup {Blank}, next : Models \cup {None}]
  /\ gCachedName \in Strings \cup {None}
  /\ gCachedNameStr \in Texts
  /\ refs \in [Strings -> Nat]
  /\ call \in [Threads \cup {Sweep} -> [pc : {"none", "read", "holds"}, buf : Texts,
                                        result : Strings \cup {None}]]
  /\ item.of \in Addresses
  /\ disturbed \subseteq {"presence", "running", "channels", "name"}

(* The two rules of docs/ARCHITECTURE.md, "coreaudiod stability rules":    *)
(* the sweep never finds an element other than Main or a property that     *)
(* fails to give its data; sizes differ only if the device came or went    *)
(* between the calls; and data differ only if the one piece of the world   *)
(* that answer is made of changed, or, for the name, if another thread     *)
(* came back with an older copy of it.                                     *)
SweepClean ==
  /\ item.problems \cap {"element", "data error"} = {}
  /\ item.problems \cap {"size unstable", "mismatch"} # {} => disturbed = {"presence"}
  /\ item.problems # {} => disturbed # {}

(* A Data call stores no more than the Size call before it announced,      *)
(* whatever changed in between.                                            *)
WithinBuffer == "overrun" \notin item.problems

Holders(s) ==
  {t \in Threads : call[t].pc = "holds" /\ call[t].result = s}
    \cup {x \in {Cache} : gCachedName = s}
    \cup {x \in {Sweep} : item.pc = "again" /\ AsksName(item.of) /\ item.first.data = s}

(* No thread is left with a freed name and no name is leaked, whichever    *)
(* thread replaces the cached string under whom.                           *)
NameCounted == \A s \in Strings : refs[s] = Cardinality(Holders(s))

Asked(o, sel) ==
  Data([obj |-> o, sel |-> sel, scope |-> "global", elem |-> Main, q |-> "none"], UInt32Size)

(* The objects form a tree: what an object owns names it as its owner, and *)
(* the owner of what is there owns it; the device hangs from the plugin    *)
(* exactly while it is present.                                            *)
ObjectTree ==
  \A p, o \in Objects :
    o \in Asked(p, "OwnedObjects").data <=>
      p \in Asked(o, "Owner").data /\ (p = PlugIn => gDevicePresent)

(* The string that each thread was given and has not released, or None.    *)
HeldStrings ==
  [t \in Threads \cup {Sweep} |->
     IF t = Sweep
     THEN IF item.pc = "again" /\ AsksName(item.of) THEN item.first.data ELSE None
     ELSE IF call[t].pc = "holds" THEN call[t].result ELSE None]

(* The counted cache is what DeviceNameCopy promises: a string is used     *)
(* again only when no thread holds it, though the cache may drop it, and   *)
(* its memory go, in another thread's critical section.                    *)
Names == INSTANCE Line6Names WITH
  Callers <- Threads \cup {Sweep},
  name <- gCachedName,
  text <- gCachedNameStr,
  holds <- HeldStrings

GivesNames == Names!Spec

(* For as long as anybody holds the cached string, it keeps its text.      *)
HeldKeepsText ==
  [][\A t \in Threads \cup {Sweep} :
       gCachedName # None /\ gCachedName' = gCachedName /\ HeldStrings[t] = gCachedName
         => UNCHANGED gCachedNameStr]_vars
=============================================================================
